---------------------------- MODULE Spec2Model ----------------------------
(***************************************************************************)
(* Cucina Recipe Organizer: the unit-conversion and inventory-deduction    *)
(* engine (lib/conversions.ts).                                            *)
(*                                                                         *)
(* Quantities and factors are JavaScript numbers in the source.  They are  *)
(* modelled as exact rationals [n, d] in lowest terms with d > 0, so that  *)
(* q * factor, subtraction and the comparisons against 0 and 0.001 are     *)
(* computed and not assumed.  The value null is the record with d = 0.     *)
(***************************************************************************)
EXTENDS Integers, Sequences, FiniteSets, TLC

\* ------------------------------------------------------------------------
\* Numbers
\* ------------------------------------------------------------------------
Abs(x) == IF x < 0 THEN -x ELSE x

RECURSIVE GCD(_, _)
GCD(a, b) == IF b = 0 THEN a ELSE GCD(b, a % b)

\* the number n/d (d > 0) in lowest terms
Num(n, d) == LET g == GCD(Abs(n), d) IN [n |-> n \div g, d |-> d \div g]

NULL == [n |-> 0, d |-> 0]

Zero == Num(0, 1)

Mul(a, b) == Num(a.n * b.n, a.d * b.d)

Add(a, b) == Num(a.n * b.d + b.n * a.d, a.d * b.d)

Sub(a, b) == Num(a.n * b.d - b.n * a.d, a.d * b.d)

\* a / b for b > 0
Div(a, b) == Num(a.n * b.d, a.d * b.n)

Le(a, b) == a.n * b.d <= b.n * a.d

Lt(a, b) == a.n * b.d < b.n * a.d

\* the larger of the two
Min_Max(a, b) == IF Le(a, b) THEN b ELSE a

\* Math.min
Min(a, b) == IF Le(a, b) THEN a ELSE b

\* the 0.001 of "newQuantity > 0.001"
EPSILON == Num(1, 1000)

\* the "quantity: -1" that marks an item for removal
REMOVED == Num(-1, 1)

\* ------------------------------------------------------------------------
\* Inputs
\* ------------------------------------------------------------------------
\* longest inventory array drawn
MaxInv == 3

CUP == "1"

TBSP == "2"

TSP == "3"

Conv(to, f) == [toMeasurementId |-> to, factor |-> f]

Meas(id, convs) == [id |-> id, conversions |-> convs]

Item(u, i, m, q) == [userId |-> u, ingredientId |-> i, measurementId |-> m, quantity |-> q]

\* measurement arrays: reciprocal both ways; cup->tbsp without the way back;
\* tbsp->cup without the way there; factors that are not reciprocal; a chain
\* cup->tbsp->tsp; units without conversions; an array that lacks the units
Catalogs ==
  { << Meas(CUP, << Conv(TBSP, Num(16, 1)), Conv(TSP, Num(48, 1)) >>),
       Meas(TBSP, << Conv(CUP, Num(1, 16)), Conv(TSP, Num(3, 1)) >>),
       Meas(TSP, << Conv(CUP, Num(1, 48)), Conv(TBSP, Num(1, 3)) >>) >>,
    << Meas(CUP, << Conv(TBSP, Num(16, 1)), Conv(TSP, Num(48, 1)) >>),
       Meas(TBSP, << >>),
       Meas(TSP, << Conv(CUP, Num(1, 48)) >>) >>,
    << Meas(CUP, << Conv(TSP, Num(48, 1)) >>),
       Meas(TBSP, << Conv(CUP, Num(1, 16)) >>),
       Meas(TSP, << Conv(CUP, Num(1, 48)) >>) >>,
    << Meas(CUP, << Conv(TBSP, Num(16, 1)) >>),
       Meas(TBSP, << Conv(CUP, Num(1, 10)) >>) >>,
    << Meas(CUP, << Conv(TBSP, Num(16, 1)) >>),
       Meas(TBSP, << Conv(TSP, Num(3, 1)) >>),
       Meas(TSP, << >>) >>,
    << Meas(CUP, << >>), Meas(TBSP, << >>) >>,
    << >> }

\* inventory records: the requesting user's flour in three units, with
\* quantities that leave 0, 0.0005, 0.001 or more behind, and records of
\* another user and of another ingredient
Items ==
  { Item("u1", "flour", CUP, Num(1, 1)),
    Item("u1", "flour", CUP, Num(1001, 1000)),
    Item("u1", "flour", CUP, Num(2001, 2000)),
    Item("u1", "flour", TBSP, Num(8, 1)),
    Item("u1", "flour", TSP, Num(48, 1)),
    Item("u1", "flour", TSP, Zero),
    Item("u2", "flour", CUP, Num(1, 1)),
    Item("u1", "sugar", TBSP, Num(8, 1)) }

RequiredQuantities == { Num(-1, 1), Zero, Num(1, 2), Num(1, 1), Num(2, 1) }

Inventories == UNION { [1..n -> Items] : n \in 0..MaxInv }

VARIABLES
  inventory, measurements, ingredientId, requiredMeasurementId,
  requiredQuantity, userId,
  pc, sortedItems, k, remainingToDeduct, updatedInventory, deducted,
  total, enough,
  convFrom, convTo, convQuantity, convResult,
  stored, snapshot, request, cpc, stored0, overlapped, writers,
  data, db, dbBefore, task, hpc, pending, saves,
  ipc, existing, ires, initFailed, calls,
  appData, selectedRecipeId, currentView, nextId, deductions,
  remote, lpc, loaded, timer, added

vars == << inventory, measurements, ingredientId, requiredMeasurementId,
           requiredQuantity, userId,
           pc, sortedItems, k, remainingToDeduct, updatedInventory, deducted,
           total, enough,
           convFrom, convTo, convQuantity, convResult,
           stored, snapshot, request, cpc, stored0, overlapped, writers,
           data, db, dbBefore, task, hpc, pending, saves,
           ipc, existing, ires, initFailed, calls,
           appData, selectedRecipeId, currentView, nextId, deductions,
           remote, lpc, loaded, timer, added >>

\* the arguments and the result of a call of convertMeasurement
convVars == << convFrom, convTo, convQuantity, convResult >>

\* the inventory two callers share (stored), for each caller the inventory
\* it read or computed (snapshot), its deduction (request) and its position
\* (cpc); stored0, overlapped and writers record the history: the inventory
\* at the start, whether a caller read while the other held a snapshot it
\* had not written back, and the callers in the order of their writes
clientVars == << stored, snapshot, request, cpc, stored0, overlapped, writers >>

\* the application data of the client (data), the tables of the database
\* (db), the five save functions of a save-all request (task), the position
\* of the request handler (hpc) and the recipes saveAllRecipes has still to
\* save (pending); dbBefore and saves record the history: the tables when
\* the request arrived and the number of requests so far
serverVars == << data, db, dbBefore, task, hpc, pending, saves >>

\* the calls of initializeUserDefaults: the position of each (ipc), what its
\* two reads returned (existing) and its last result (ires); initFailed and
\* calls record the history: whether a call has thrown, and the number of
\* calls so far
initVars == << ipc, existing, ires, initFailed, calls >>

\* the state of the App component: data (appData), selectedRecipeId and
\* currentView, and the number of ids generateId has handed out (nextId);
\* deductions records the calls of deductFromInventory the last completed
\* cooking session made; every other handler empties it
appState == << appData, selectedRecipeId, currentView, nextId, deductions >>

\* what the server holds for the user (remote), the position of the two
\* calls of loadDataFromSupabase (lpc), what each received (loaded) and
\* whether the auto-save timeout is pending (timer); added records the
\* inventory records the user has added since the login
loginVars == << remote, lpc, loaded, timer, added >>

appVars == << appState, loginVars >>

\* the variables a call into the engine has no access to
outside == << convVars, clientVars, serverVars, initVars, appVars >>

inputs == << inventory, measurements, ingredientId, requiredMeasurementId,
             requiredQuantity, userId >>

\* ------------------------------------------------------------------------
\* convertMeasurement
\* ------------------------------------------------------------------------
\* Array.prototype.find: of the indices S that satisfy the test the first, 0 if none
FirstIndex(S) ==
  IF S = {} THEN 0 ELSE CHOOSE i \in S : \A j \in S : i <= j

\* measurements.find((m) => m.id === id)
FindMeasurement(ms, id) == FirstIndex({ i \in 1..Len(ms) : ms[i].id = id })

\* conversions.find((c) => c.toMeasurementId === to)
FindConversion(cs, to) == FirstIndex({ i \in 1..Len(cs) : cs[i].toMeasurementId = to })

\* a conversion that answers 0 where there is no conversion
convertMeasurement_NullAsZero(fromMeasurementId, toMeasurementId, quantity, ms) ==
  IF fromMeasurementId = toMeasurementId THEN quantity
  ELSE LET fi == FindMeasurement(ms, fromMeasurementId)
           ci == IF fi = 0 THEN 0
                 ELSE FindConversion(ms[fi].conversions, toMeasurementId)
       IN IF ci # 0 THEN Mul(quantity, ms[fi].conversions[ci].factor) ELSE Zero

\* a conversion that falls back on the opposite conversion, inverted
convertMeasurement_Reverse(fromMeasurementId, toMeasurementId, quantity, ms) ==
  LET direct(a, b) ==
        LET fi == FindMeasurement(ms, a)
            ci == IF fi = 0 THEN 0
                  ELSE FindConversion(ms[fi].conversions, b)
        IN IF ci # 0 THEN ms[fi].conversions[ci].factor ELSE NULL
  IN IF fromMeasurementId = toMeasurementId THEN quantity
     ELSE IF direct(fromMeasurementId, toMeasurementId) # NULL
       THEN Mul(quantity, direct(fromMeasurementId, toMeasurementId))
     ELSE IF direct(toMeasurementId, fromMeasurementId) # NULL
       THEN Div(quantity, direct(toMeasurementId, fromMeasurementId))
     ELSE NULL

\* a conversion that looks the source unit up before it compares the units
convertMeasurement_LookupFirst(fromMeasurementId, toMeasurementId, quantity, ms) ==
  LET fi == FindMeasurement(ms, fromMeasurementId) IN
    IF fi = 0 THEN NULL
    ELSE IF fromMeasurementId = toMeasurementId THEN quantity
    ELSE LET cs == ms[fi].conversions
             ci == FindConversion(cs, toMeasurementId) IN
      IF ci # 0 THEN Mul(quantity, cs[ci].factor) ELSE NULL

\* a conversion that divides by the factor
convertMeasurement_Divide(fromMeasurementId, toMeasurementId, quantity, ms) ==
  IF fromMeasurementId = toMeasurementId THEN quantity
  ELSE LET fi == FindMeasurement(ms, fromMeasurementId) IN
    IF fi = 0 THEN NULL
    ELSE LET cs == ms[fi].conversions
             ci == FindConversion(cs, toMeasurementId) IN
      IF ci # 0 THEN Div(quantity, cs[ci].factor) ELSE NULL

\* a conversion that goes through one intermediate unit when there is no
\* direct conversion
convertMeasurement_TwoHop(fromMeasurementId, toMeasurementId, quantity, ms) ==
  LET direct(a, b) ==
        LET fi == FindMeasurement(ms, a)
            ci == IF fi = 0 THEN 0
                  ELSE FindConversion(ms[fi].conversions, b)
        IN IF ci # 0 THEN ms[fi].conversions[ci].factor ELSE NULL
      via == { i \in 1..Len(ms) :
                 /\ direct(fromMeasurementId, ms[i].id) # NULL
                 /\ direct(ms[i].id, toMeasurementId) # NULL }
  IN IF fromMeasurementId = toMeasurementId THEN quantity
     ELSE IF direct(fromMeasurementId, toMeasurementId) # NULL
       THEN Mul(quantity, direct(fromMeasurementId, toMeasurementId))
     ELSE IF via # {}
       THEN LET m == ms[FirstIndex(via)].id
            IN Mul(Mul(quantity, direct(fromMeasurementId, m)),
                   direct(m, toMeasurementId))
     ELSE NULL

convertMeasurement(fromMeasurementId, toMeasurementId, quantity, ms) ==
  IF fromMeasurementId = toMeasurementId THEN quantity
  ELSE LET fi == FindMeasurement(ms, fromMeasurementId) IN
    IF fi = 0 THEN NULL
    ELSE LET cs == ms[fi].conversions
             ci == FindConversion(cs, toMeasurementId) IN
      IF ci # 0 THEN Mul(quantity, cs[ci].factor) ELSE NULL

\* ------------------------------------------------------------------------
\* getTotalInventoryInUnit, hasEnoughInventory
\* ------------------------------------------------------------------------
\* the for-of loop of getTotalInventoryInUnit from item i on, acc so far
RECURSIVE TotalLoop(_, _, _, _, _)
TotalLoop(inventoryItems, targetMeasurementId, ms, i, acc) ==
  IF i > Len(inventoryItems) THEN acc
  ELSE LET item == inventoryItems[i]
           converted == convertMeasurement(item.measurementId, targetMeasurementId,
                                           item.quantity, ms)
       IN TotalLoop(inventoryItems, targetMeasurementId, ms, i + 1,
                    IF converted # NULL THEN Add(acc, converted) ELSE acc)

\* a total over the items of every ingredient
getTotalInventoryInUnit_NoFilter(ing, targetMeasurementId, inv, ms) ==
  TotalLoop(inv, targetMeasurementId, ms, 1, Zero)

\* a total over the items of the ingredient that belong to the first user
getTotalInventoryInUnit_OwnOnly(ing, targetMeasurementId, inv, ms) ==
  TotalLoop(SelectSeq(inv, LAMBDA item : item.ingredientId = ing /\ item.userId = "u1"),
            targetMeasurementId, ms, 1, Zero)

getTotalInventoryInUnit(ing, targetMeasurementId, inv, ms) ==
  TotalLoop(SelectSeq(inv, LAMBDA item : item.ingredientId = ing),
            targetMeasurementId, ms, 1, Zero)

\* the comparison as totalAvailable > requiredQuantity
hasEnoughInventory_Strict(ing, req, reqQuantity, inv, ms) ==
  LET totalAvailable == getTotalInventoryInUnit(ing, req, inv, ms)
  IN [hasEnough |-> Lt(reqQuantity, totalAvailable), available |-> totalAvailable]

hasEnoughInventory(ing, req, reqQuantity, inv, ms) ==
  LET totalAvailable == getTotalInventoryInUnit(ing, req, inv, ms)
  IN [hasEnough |-> Le(reqQuantity, totalAvailable), available |-> totalAvailable]

\* ------------------------------------------------------------------------
\* deductFromInventory
\* ------------------------------------------------------------------------
\* the filter without the test of the ingredient
relevantItems_AnyIngredient(inv, uid, ing) ==
  SelectSeq([i \in 1..Len(inv) |-> i], LAMBDA i : inv[i].userId = uid)

\* the filter without the test of the user
relevantItems_AnyUser(inv, uid, ing) ==
  SelectSeq([i \in 1..Len(inv) |-> i], LAMBDA i : inv[i].ingredientId = ing)

\* the indices of the items of this ingredient and user, in array order
relevantItems(inv, uid, ing) ==
  SelectSeq([i \in 1..Len(inv) |-> i],
            LAMBDA i : inv[i].userId = uid /\ inv[i].ingredientId = ing)

\* a comparator without the preference for the exact unit
compare_NoPreference(a, b, req) == 0

\* the comparator handed to sort
compare(a, b, req) ==
  IF a.measurementId = req THEN -1
  ELSE IF b.measurementId = req THEN 1
  ELSE 0

\* the orders in which the sort leaves the indices rel; the comparator calls
\* equal keeping their input order, and the first candidate comes once more at
\* the end
SortOutcomes_Revisit(inv, rel, req) ==
  LET n == Len(rel)
      once == { s \in [1..n -> {rel[i] : i \in 1..n}] :
                  /\ \A p, q \in 1..n : p # q => s[p] # s[q]
                  /\ \A p, q \in 1..n : p < q =>
                       /\ compare(inv[s[p]], inv[s[q]], req) <= 0
                       /\ (compare(inv[s[p]], inv[s[q]], req) = 0
                             /\ compare(inv[s[q]], inv[s[p]], req) = 0) => s[p] < s[q] }
  IN { IF n = 0 THEN s ELSE Append(s, s[1]) : s \in once }

\* Array.prototype.sort of the index sequence rel under compare.  The
\* comparator is not consistent (two exact matches are each "before" the
\* other), so the order is implementation-defined: any permutation in which
\* no element stands before one the comparator ranks it after, elements the
\* comparator calls equal keeping their input order (the sort is stable).
SortOutcomes(inv, rel, req) ==
  LET n == Len(rel)
  IN { s \in [1..n -> {rel[i] : i \in 1..n}] :
         /\ \A p, q \in 1..n : p # q => s[p] # s[q]
         /\ \A p, q \in 1..n : p < q =>
              /\ compare(inv[s[p]], inv[s[q]], req) <= 0
              /\ (compare(inv[s[p]], inv[s[q]], req) = 0
                    /\ compare(inv[s[q]], inv[s[p]], req) = 0) => s[p] < s[q] }

\* the threshold test as >= 0.001
NewEntry_KeepAtEpsilon(item, newQuantity) ==
  IF Le(EPSILON, newQuantity)
    THEN [item EXCEPT !.quantity = newQuantity]
    ELSE [item EXCEPT !.quantity = REMOVED]

\* the entry written to updatedInventory[index]
NewEntry(item, newQuantity) ==
  IF Lt(EPSILON, newQuantity)
    THEN [item EXCEPT !.quantity = newQuantity]
    ELSE [item EXCEPT !.quantity = REMOVED]

\* updatedInventory.filter((item) => item.quantity !== -1)
FilterRemoved(inv) == SelectSeq(inv, LAMBDA item : item.quantity # REMOVED)

\* no call of convertMeasurement is under way
ConvIdle ==
  /\ convFrom = CUP
  /\ convTo = CUP
  /\ convQuantity = Zero
  /\ convResult = NULL

Callers == {"c1", "c2"}

\* no caller is at work
ClientsIdle ==
  /\ stored = << >>
  /\ snapshot = [c \in Callers |-> << >>]
  /\ request = [c \in Callers |-> [measurementId |-> CUP, quantity |-> Zero]]
  /\ cpc = [c \in Callers |-> "idle"]
  /\ stored0 = << >>
  /\ overlapped = FALSE
  /\ writers = << >>

Tasks == {"ingredients", "measurements", "recipes", "inventory", "sessions"}

EmptyData ==
  [ingredients |-> {}, measurements |-> {}, recipes |-> {},
   inventory |-> {}, cookingSessions |-> {}]

EmptyDb ==
  [ingredients |-> {}, measurements |-> {}, measurement_conversions |-> {},
   recipes |-> {}, recipe_ingredients |-> {}, inventory |-> {},
   cooking_sessions |-> {}]

\* no request is under way
ServerIdle ==
  /\ data = EmptyData
  /\ db = EmptyDb
  /\ dbBefore = EmptyDb
  /\ task = [t \in Tasks |-> "idle"]
  /\ hpc = "idle"
  /\ pending = {}
  /\ saves = 0

InitCallers == {"login", "effect"}

\* no call of initializeUserDefaults is under way
InitializeIdle ==
  /\ ipc = [c \in InitCallers |-> "idle"]
  /\ existing = [c \in InitCallers |-> [ingredients |-> {}, measurements |-> {}]]
  /\ ires = [c \in InitCallers |-> "none"]
  /\ initFailed = FALSE
  /\ calls = 0

EmptyAppData ==
  [recipes |-> << >>, measurements |-> << >>, inventory |-> << >>,
   cookingSessions |-> << >>, currentUserId |-> "null"]

\* the App component is not mounted
AppIdle ==
  /\ appData = EmptyAppData
  /\ selectedRecipeId = "null"
  /\ currentView = "dashboard"
  /\ nextId = 1
  /\ deductions = << >>
  /\ remote = EmptyAppData
  /\ lpc = [c \in InitCallers |-> "idle"]
  /\ loaded = [c \in InitCallers |-> EmptyAppData]
  /\ timer = FALSE
  /\ added = {}

Init ==
  /\ inventory \in Inventories
  /\ measurements \in Catalogs
  /\ ingredientId = "flour"
  /\ requiredMeasurementId \in {CUP, TBSP}
  /\ requiredQuantity \in RequiredQuantities
  /\ userId = "u1"
  /\ pc = "start"
  /\ sortedItems = << >>
  /\ k = 1
  /\ remainingToDeduct = Zero
  /\ updatedInventory = << >>
  /\ deducted = << >>
  /\ total = NULL
  /\ enough = [hasEnough |-> FALSE, available |-> NULL]
  /\ ConvIdle
  /\ ClientsIdle
  /\ ServerIdle
  /\ InitializeIdle
  /\ AppIdle

results == << total, enough >>

loopState == << sortedItems, k, remainingToDeduct, updatedInventory, deducted >>

\* a call of getTotalInventoryInUnit on the inputs
TotalCall ==
  /\ pc = "start"
  /\ total' = getTotalInventoryInUnit(ingredientId, requiredMeasurementId,
                                      inventory, measurements)
  /\ pc' = "summed"
  /\ UNCHANGED << outside, inputs, loopState, enough >>

\* a call of hasEnoughInventory on the inputs
EnoughCall ==
  /\ pc = "start"
  /\ enough' = hasEnoughInventory(ingredientId, requiredMeasurementId,
                                  requiredQuantity, inventory, measurements)
  /\ pc' = "checked"
  /\ UNCHANGED << outside, inputs, loopState, total >>

\* lines 184-200: the locals, the relevant items and their sort
DeductStart ==
  /\ pc = "start"
  /\ deducted' = << >>
  /\ remainingToDeduct' = requiredQuantity
  /\ updatedInventory' = inventory
  /\ sortedItems' \in SortOutcomes(inventory,
                        relevantItems(inventory, userId, ingredientId),
                        requiredMeasurementId)
  /\ k' = 1
  /\ pc' = "loop"
  /\ UNCHANGED << outside, inputs, results >>

\* the item of the current iteration
CurItem == inventory[sortedItems[k]]

amountInItemUnit ==
  convertMeasurement(requiredMeasurementId, CurItem.measurementId,
                     remainingToDeduct, measurements)

\* a loop without the stop test
Exhausted_Never(remaining) == FALSE

\* the stop test as remainingToDeduct < 0
Exhausted_Negative(remaining) == Lt(remaining, Zero)

\* the loop's stop test, remainingToDeduct <= 0
Exhausted(remaining) == Le(remaining, Zero)

\* line 203: if (remainingToDeduct <= 0) break
LoopBreak ==
  /\ pc = "loop"
  /\ k <= Len(sortedItems)
  /\ Exhausted(remainingToDeduct)
  /\ pc' = "filter"
  /\ UNCHANGED << outside, inputs, results, sortedItems, k, remainingToDeduct, updatedInventory, deducted >>

\* line 213: if (amountInItemUnit === null) continue
LoopSkip ==
  /\ pc = "loop"
  /\ k <= Len(sortedItems)
  /\ ~Exhausted(remainingToDeduct)
  /\ amountInItemUnit = NULL
  /\ k' = k + 1
  /\ UNCHANGED << outside, inputs, results, pc, sortedItems, remainingToDeduct, updatedInventory, deducted >>

\* the arguments other than the inventory array: ids and a number, passed by
\* value, and the measurement array, which the engine only reads
byValue == << measurements, ingredientId, requiredMeasurementId,
              requiredQuantity, userId >>

\* updatedInventory = inventory, one array under two names
CallerArray_Shared(callerArray, localArray) == localArray

\* the caller's array after an assignment to a slot of updatedInventory:
\* line 186 made updatedInventory a new array ([...inventory]) and lines
\* 223-229 put a new object ({ ...item, quantity }) into the slot
CallerArray(callerArray, localArray) == callerArray

\* lines 216-248: one deduction
LoopTake ==
  /\ pc = "loop"
  /\ k <= Len(sortedItems)
  /\ ~Exhausted(remainingToDeduct)
  /\ amountInItemUnit # NULL
  /\ LET item == CurItem
         toDeduct == Min(item.quantity, amountInItemUnit)
         newQuantity == Sub(item.quantity, toDeduct)
         deductedInRequiredUnit ==
           convertMeasurement(item.measurementId, requiredMeasurementId,
                              toDeduct, measurements)
     IN /\ updatedInventory' =
             [updatedInventory EXCEPT ![sortedItems[k]] = NewEntry(item, newQuantity)]
        /\ deducted' = Append(deducted,
             [measurementId |-> item.measurementId, quantity |-> toDeduct])
        /\ remainingToDeduct' =
             IF deductedInRequiredUnit # NULL
               THEN Sub(remainingToDeduct, deductedInRequiredUnit)
               ELSE remainingToDeduct
  /\ inventory' = CallerArray(inventory, updatedInventory')
  /\ k' = k + 1
  /\ UNCHANGED << outside, byValue, results, pc, sortedItems >>

\* the for-of loop has run through sortedItems
LoopEnd ==
  /\ pc = "loop"
  /\ k > Len(sortedItems)
  /\ pc' = "filter"
  /\ UNCHANGED << outside, inputs, results, sortedItems, k, remainingToDeduct, updatedInventory, deducted >>

\* lines 251-254: drop the marked items and return
DeductReturn ==
  /\ pc = "filter"
  /\ updatedInventory' = FilterRemoved(updatedInventory)
  /\ pc' = "done"
  /\ UNCHANGED << outside, inputs, results, sortedItems, k, remainingToDeduct, deducted >>

Next ==
  \/ TotalCall
  \/ EnoughCall
  \/ DeductStart
  \/ LoopBreak
  \/ LoopSkip
  \/ LoopTake
  \/ LoopEnd
  \/ DeductReturn

Spec == Init /\ [][Next]_vars

\* no call of the deduction engine is under way
EngineIdle ==
  /\ inventory = << >>
  /\ ingredientId = "flour"
  /\ requiredMeasurementId = CUP
  /\ requiredQuantity = Zero
  /\ userId = "u1"
  /\ sortedItems = << >>
  /\ k = 1
  /\ remainingToDeduct = Zero
  /\ updatedInventory = << >>
  /\ deducted = << >>
  /\ total = NULL
  /\ enough = [hasEnough |-> FALSE, available |-> NULL]

\* ------------------------------------------------------------------------
\* deductFromInventory as a function, and two callers of it
\* ------------------------------------------------------------------------
\* the for-of loop of lines 202-249 from position i of the sorted items on
RECURSIVE DeductLoop(_, _, _, _, _, _, _)
DeductLoop(inv, order, i, remaining, updated, req, ms) ==
  IF i > Len(order) \/ Exhausted(remaining) THEN updated
  ELSE
    LET item == inv[order[i]]
        amount == convertMeasurement(req, item.measurementId, remaining, ms)
    IN IF amount = NULL
         THEN DeductLoop(inv, order, i + 1, remaining, updated, req, ms)
         ELSE
           LET toDeduct == Min(item.quantity, amount)
               newQuantity == Sub(item.quantity, toDeduct)
               deductedInRequiredUnit ==
                 convertMeasurement(item.measurementId, req, toDeduct, ms)
           IN DeductLoop(inv, order, i + 1,
                         IF deductedInRequiredUnit # NULL
                           THEN Sub(remaining, deductedInRequiredUnit)
                           ELSE remaining,
                         [updated EXCEPT ![order[i]] = NewEntry(item, newQuantity)],
                         req, ms)

\* the updatedInventory arrays a call of deductFromInventory can return,
\* one for every order the sort can produce
deductFromInventory(ing, req, reqQuantity, inv, ms, uid) ==
  { FilterRemoved(DeductLoop(inv, order, 1, reqQuantity, inv, req, ms)) :
      order \in SortOutcomes(inv, relevantItems(inv, uid, ing), req) }

MaxStored == 2

StoredInventories == UNION { [1..n -> Items] : n \in 0..MaxStored }

\* the measurement arrays in which cup converts to both other units (both
\* ways, or without the way back), and the empty one
ClientCatalogs ==
  { ms \in Catalogs : ms = << >> \/ (Len(ms) = 3 /\ Len(ms[1].conversions) = 2) }

Requests == { [measurementId |-> m, quantity |-> q] :
                m \in {CUP, TBSP}, q \in {Num(1, 2), Num(1, 1)} }

InitClients ==
  /\ EngineIdle
  /\ ConvIdle
  /\ ServerIdle
  /\ InitializeIdle
  /\ AppIdle
  /\ pc = "callers"
  /\ measurements \in ClientCatalogs
  /\ stored \in StoredInventories
  /\ stored0 = stored
  /\ snapshot = [c \in Callers |-> << >>]
  /\ request \in [Callers -> Requests]
  /\ cpc = [c \in Callers |-> "idle"]
  /\ overlapped = FALSE
  /\ writers = << >>

\* a write that leaves the shared inventory as it is
WriteBack_Dropped(current, result) == current

\* setData({ ...data, inventory: updatedInventory }): the caller's result
\* replaces the shared inventory whatever it holds by now
WriteBack(current, result) == result

\* let updatedInventory = [...data.inventory]: the caller takes the
\* inventory as it is now
ReadInventory(c) ==
  /\ cpc[c] = "idle"
  /\ snapshot' = [snapshot EXCEPT ![c] = stored]
  /\ cpc' = [cpc EXCEPT ![c] = "read"]
  /\ overlapped' = (overlapped \/ \E d \in Callers \ {c} : cpc[d] \in {"read", "deducted"})
  /\ UNCHANGED << inputs, loopState, results, pc, convVars, serverVars, initVars, appVars,
                  stored, request, stored0, writers >>

\* the call of deductFromInventory on what the caller read
DeductCall(c) ==
  /\ cpc[c] = "read"
  /\ snapshot' \in { [snapshot EXCEPT ![c] = r] :
                       r \in deductFromInventory(ingredientId, request[c].measurementId,
                                                 request[c].quantity, snapshot[c],
                                                 measurements, userId) }
  /\ cpc' = [cpc EXCEPT ![c] = "deducted"]
  /\ UNCHANGED << inputs, loopState, results, pc, convVars, serverVars, initVars, appVars,
                  stored, request, stored0, overlapped, writers >>

\* the caller writes its updatedInventory back
WriteInventory(c) ==
  /\ cpc[c] = "deducted"
  /\ stored' = WriteBack(stored, snapshot[c])
  /\ cpc' = [cpc EXCEPT ![c] = "written"]
  /\ writers' = Append(writers, c)
  /\ UNCHANGED << inputs, loopState, results, pc, convVars, serverVars, initVars, appVars,
                  snapshot, request, stored0, overlapped >>

NextClients ==
  \/ \E c \in Callers : ReadInventory(c)
  \/ \E c \in Callers : DeductCall(c)
  \/ \E c \in Callers : WriteInventory(c)

SpecClients == InitClients /\ [][NextClients]_vars

\* ------------------------------------------------------------------------
\* the server: POST /data/:userId/all, GET /data/:userId and the database
\* layer under them
\* ------------------------------------------------------------------------
\* an id is a sequence of the parts that "-" joins: "47" is << "47" >> and
\* "u1-47" is << "u1", "47" >>

\* `${userId}-${id}`
Prefixed(uid, id) == << uid >> \o id

FLOUR == << "47" >>

MCUP == << CUP >>

MTBSP == << TBSP >>

Ref(i, m) == [ingredientId |-> i, measurementId |-> m]

\* the data of the client before its first save: nothing; ingredients and
\* measurements; these with a recipe, an inventory item and a cooking
\* session; these with an inventory item only; and a measurement whose
\* conversion leads to a measurement that has been deleted
Payloads ==
  { EmptyData,
    [EmptyData EXCEPT
       !.ingredients = {FLOUR},
       !.measurements = {[id |-> MCUP, conversions |-> {MTBSP}],
                         [id |-> MTBSP, conversions |-> {}]}],
    [EmptyData EXCEPT
       !.ingredients = {FLOUR},
       !.measurements = {[id |-> MCUP, conversions |-> {MTBSP}],
                         [id |-> MTBSP, conversions |-> {MCUP}]},
       !.recipes = {[id |-> "r1", ingredients |-> {Ref(FLOUR, MCUP)}]},
       !.inventory = {Ref(FLOUR, MTBSP)},
       !.cookingSessions = {[id |-> "s1", recipeId |-> "r1"]}],
    [EmptyData EXCEPT
       !.ingredients = {FLOUR},
       !.measurements = {[id |-> MCUP, conversions |-> {}]},
       !.inventory = {Ref(FLOUR, MCUP)}],
    [EmptyData EXCEPT
       !.ingredients = {FLOUR},
       !.measurements = {[id |-> MCUP, conversions |-> {MTBSP}]}] }

\* the tables before the first request: rows of another user
OtherUsersRows ==
  [EmptyDb EXCEPT
     !.ingredients = {[id |-> << "u2", "47" >>, user_id |-> "u2"]},
     !.measurements = {[id |-> << "u2", CUP >>, user_id |-> "u2"]},
     !.recipes = {[id |-> "r2", user_id |-> "u2"]},
     !.recipe_ingredients =
        {[recipe_id |-> "r2", ingredient_id |-> << "u2", "47" >>,
          measurement_id |-> << "u2", CUP >>]},
     !.inventory = {[user_id |-> "u2", ingredient_id |-> << "u2", "47" >>,
                     measurement_id |-> << "u2", CUP >>]}]

MaxSaves == 2

InitServer ==
  /\ EngineIdle
  /\ ConvIdle
  /\ ClientsIdle
  /\ InitializeIdle
  /\ AppIdle
  /\ pc = "server"
  /\ measurements = << >>
  /\ data \in Payloads
  /\ db = OtherUsersRows
  /\ dbBefore = db
  /\ task = [t \in Tasks |-> "idle"]
  /\ hpc = "idle"
  /\ pending = {}
  /\ saves = 0

NotOf(rows, uid) == { r \in rows : r.user_id # uid }

Of(rows, uid) == { r \in rows : r.user_id = uid }

\* Promise.all that is fulfilled as soon as one of its promises is
AllFulfilled_Any(ts) == \E t \in ts : task[t] = "done"

\* await Promise.all([...]) goes on when every promise is fulfilled
AllFulfilled(ts) == \A t \in ts : task[t] = "done"

\* await Promise.all([...]) throws when one of its promises is rejected
AnyRejected(ts) == \E t \in ts : task[t] = "failed"

serverFrame == << inputs, loopState, results, pc, convVars, clientVars, initVars,
                 appVars >>

\* lines 292-310: the request arrives and step 1 calls saveAllIngredients
\* and saveAllMeasurements, which run up to their first await
SaveAllStart ==
  /\ hpc = "idle"
  /\ saves < MaxSaves
  /\ saves' = saves + 1
  /\ dbBefore' = db
  /\ hpc' = "step1"
  /\ task' = [t \in Tasks |->
                IF t \in {"ingredients", "measurements"} THEN "delete" ELSE "idle"]
  /\ UNCHANGED << serverFrame, data, db, pending >>

\* saveAllIngredients, lines 574-577: delete the user's rows
IngredientsDelete ==
  /\ task["ingredients"] = "delete"
  /\ db' = [db EXCEPT !.ingredients = NotOf(@, userId)]
  /\ task' = [task EXCEPT !["ingredients"] = "insert"]
  /\ UNCHANGED << serverFrame, data, dbBefore, hpc, pending, saves >>

\* saveAllIngredients, lines 582-604: insert the rows, or the insert fails
IngredientsInsert ==
  /\ task["ingredients"] = "insert"
  /\ \/ /\ db' = [db EXCEPT !.ingredients = @ \cup
                      { [id |-> Prefixed(userId, i), user_id |-> userId] :
                          i \in data.ingredients }]
        /\ task' = [task EXCEPT !["ingredients"] = "done"]
     \/ /\ data.ingredients # {}
        /\ task' = [task EXCEPT !["ingredients"] = "failed"]
        /\ UNCHANGED db
  /\ UNCHANGED << serverFrame, data, dbBefore, hpc, pending, saves >>

\* saveAllMeasurements, lines 729-752: delete the conversions that start at
\* the user's measurements, then the measurements
MeasurementsDelete ==
  /\ task["measurements"] = "delete"
  /\ LET existingIds == { r.id : r \in Of(db.measurements, userId) }
     IN db' = [db EXCEPT
                 !.measurement_conversions =
                    { c \in @ : c.from_measurement_id \notin existingIds },
                 !.measurements = NotOf(@, userId)]
  /\ task' = [task EXCEPT !["measurements"] = "insert"]
  /\ UNCHANGED << serverFrame, data, dbBefore, hpc, pending, saves >>

\* saveAllMeasurements, lines 755-769: insert the measurements
MeasurementsInsert ==
  /\ task["measurements"] = "insert"
  /\ \/ /\ db' = [db EXCEPT !.measurements = @ \cup
                      { [id |-> Prefixed(userId, m.id), user_id |-> userId] :
                          m \in data.measurements }]
        /\ task' = [task EXCEPT !["measurements"] = "conversions"]
     \/ /\ task' = [task EXCEPT !["measurements"] = "failed"]
        /\ UNCHANGED db
  /\ UNCHANGED << serverFrame, data, dbBefore, hpc, pending, saves >>

\* saveAllMeasurements, lines 772-797: insert the conversions
ConversionsInsert ==
  /\ task["measurements"] = "conversions"
  /\ LET allConversions ==
           UNION { { [from_measurement_id |-> Prefixed(userId, m.id),
                      to_measurement_id |-> Prefixed(userId, to)] :
                       to \in m.conversions } : m \in data.measurements }
     IN \/ /\ db' = [db EXCEPT !.measurement_conversions = @ \cup allConversions]
           /\ task' = [task EXCEPT !["measurements"] = "done"]
        \/ /\ allConversions # {}
           /\ task' = [task EXCEPT !["measurements"] = "failed"]
           /\ UNCHANGED db
  /\ UNCHANGED << serverFrame, data, dbBefore, hpc, pending, saves >>

\* lines 306-313: step 1 is complete, step 2 calls saveAllRecipes
Step1Done ==
  /\ hpc = "step1"
  /\ AllFulfilled({"ingredients", "measurements"})
  /\ hpc' = "step2"
  /\ task' = [task EXCEPT !["recipes"] = "delete"]
  /\ UNCHANGED << serverFrame, data, db, dbBefore, pending, saves >>

\* saveAllRecipes, lines 943-950: delete the user's recipes
RecipesDelete ==
  /\ task["recipes"] = "delete"
  /\ db' = [db EXCEPT !.recipes = NotOf(@, userId)]
  /\ pending' = data.recipes
  /\ task' = [task EXCEPT !["recipes"] = "save"]
  /\ UNCHANGED << serverFrame, data, dbBefore, hpc, saves >>

\* saveRecipe, lines 872-931, for the next recipe of the loop: the upsert
\* fails; or the recipe row is written, the recipe's ingredient rows are
\* deleted and the insert of the new ones fails; or everything is written
SaveRecipe ==
  /\ task["recipes"] = "save"
  /\ \E recipe \in pending :
       LET upserted == { r \in db.recipes : r.id # recipe.id }
                         \cup { [id |-> recipe.id, user_id |-> userId] }
           cleared == { ri \in db.recipe_ingredients : ri.recipe_id # recipe.id }
           inserted == { [recipe_id |-> recipe.id,
                          ingredient_id |-> ingredient.ingredientId,
                          measurement_id |-> ingredient.measurementId] :
                           ingredient \in recipe.ingredients }
       IN \/ /\ task' = [task EXCEPT !["recipes"] = "failed"]
             /\ UNCHANGED << db, pending >>
          \/ /\ recipe.ingredients # {}
             /\ db' = [db EXCEPT !.recipes = upserted, !.recipe_ingredients = cleared]
             /\ task' = [task EXCEPT !["recipes"] = "failed"]
             /\ UNCHANGED pending
          \/ /\ db' = [db EXCEPT !.recipes = upserted,
                                 !.recipe_ingredients = cleared \cup inserted]
             /\ pending' = pending \ {recipe}
             /\ UNCHANGED task
  /\ UNCHANGED << serverFrame, data, dbBefore, hpc, saves >>

\* saveAllRecipes: the loop over the recipes has ended
RecipesDone ==
  /\ task["recipes"] = "save"
  /\ pending = {}
  /\ task' = [task EXCEPT !["recipes"] = "done"]
  /\ UNCHANGED << serverFrame, data, db, dbBefore, hpc, pending, saves >>

\* lines 314-321: step 2 is complete, step 3 calls saveAllInventory and
\* saveAllCookingSessions
Step2Done ==
  /\ hpc = "step2"
  /\ AllFulfilled({"recipes"})
  /\ hpc' = "step3"
  /\ task' = [task EXCEPT !["inventory"] = "delete", !["sessions"] = "delete"]
  /\ UNCHANGED << serverFrame, data, db, dbBefore, pending, saves >>

\* saveAllInventory, lines 1018-1026: delete the user's rows, or throw
InventoryDelete ==
  /\ task["inventory"] = "delete"
  /\ \/ /\ db' = [db EXCEPT !.inventory = NotOf(@, userId)]
        /\ task' = [task EXCEPT !["inventory"] = "insert"]
     \/ /\ task' = [task EXCEPT !["inventory"] = "failed"]
        /\ UNCHANGED db
  /\ UNCHANGED << serverFrame, data, dbBefore, hpc, pending, saves >>

\* saveAllInventory, lines 1029-1050: insert the rows
InventoryInsert ==
  /\ task["inventory"] = "insert"
  /\ \/ /\ db' = [db EXCEPT !.inventory = @ \cup
                      { [user_id |-> userId,
                         ingredient_id |-> item.ingredientId,
                         measurement_id |-> item.measurementId] :
                          item \in data.inventory }]
        /\ task' = [task EXCEPT !["inventory"] = "done"]
     \/ /\ data.inventory # {}
        /\ task' = [task EXCEPT !["inventory"] = "failed"]
        /\ UNCHANGED db
  /\ UNCHANGED << serverFrame, data, dbBefore, hpc, pending, saves >>

\* saveAllCookingSessions: delete the user's rows
SessionsDelete ==
  /\ task["sessions"] = "delete"
  /\ db' = [db EXCEPT !.cooking_sessions = NotOf(@, userId)]
  /\ task' = [task EXCEPT !["sessions"] = "insert"]
  /\ UNCHANGED << serverFrame, data, dbBefore, hpc, pending, saves >>

\* saveAllCookingSessions: insert the rows
SessionsInsert ==
  /\ task["sessions"] = "insert"
  /\ \/ /\ db' = [db EXCEPT !.cooking_sessions = @ \cup
                      { [id |-> session.id, recipe_id |-> session.recipeId,
                         user_id |-> userId] :
                          session \in data.cookingSessions }]
        /\ task' = [task EXCEPT !["sessions"] = "done"]
     \/ /\ data.cookingSessions # {}
        /\ task' = [task EXCEPT !["sessions"] = "failed"]
        /\ UNCHANGED db
  /\ UNCHANGED << serverFrame, data, dbBefore, hpc, pending, saves >>

\* lines 322-326: step 3 is complete, the response is 200
Step3Done ==
  /\ hpc = "step3"
  /\ AllFulfilled({"inventory", "sessions"})
  /\ hpc' = "ok"
  /\ UNCHANGED << serverFrame, data, db, dbBefore, task, pending, saves >>

\* the save functions the handler awaits at its position
Awaited ==
  CASE hpc = "step1" -> {"ingredients", "measurements"}
    [] hpc = "step2" -> {"recipes"}
    [] hpc = "step3" -> {"inventory", "sessions"}
    [] OTHER -> {}

\* lines 327-330: an awaited save function has thrown, the response is 500;
\* a save function that runs beside it is not stopped
SaveAllCatch ==
  /\ AnyRejected(Awaited)
  /\ hpc' = "error"
  /\ UNCHANGED << serverFrame, data, db, dbBefore, task, pending, saves >>

\* getIngredients, lines 502-523
getIngredients(uid) == { r.id : r \in Of(db.ingredients, uid) }

\* getMeasurements, lines 618-653
getMeasurements(uid) ==
  { [id |-> m.id,
     conversions |-> { c.to_measurement_id :
                         c \in { x \in db.measurement_conversions :
                                   x.from_measurement_id = m.id } }] :
      m \in Of(db.measurements, uid) }

\* getRecipes, lines 811-870
getRecipes(uid) ==
  { [id |-> recipe.id,
     ingredients |-> { Ref(ri.ingredient_id, ri.measurement_id) :
                         ri \in { x \in db.recipe_ingredients :
                                    x.recipe_id = recipe.id } }] :
      recipe \in Of(db.recipes, uid) }

\* getInventory, lines 959-972
getInventory(uid) ==
  { Ref(item.ingredient_id, item.measurement_id) : item \in Of(db.inventory, uid) }

\* getCookingSessions
getCookingSessions(uid) ==
  { [id |-> session.id, recipeId |-> session.recipe_id] :
      session \in Of(db.cooking_sessions, uid) }

\* GET /data/:userId, lines 142-166, after the response of a save-all
\* request: the client takes what the five get functions return
LoadData ==
  /\ hpc \in {"ok", "error"}
  /\ data' = [ingredients |-> getIngredients(userId),
              measurements |-> getMeasurements(userId),
              recipes |-> getRecipes(userId),
              inventory |-> getInventory(userId),
              cookingSessions |-> getCookingSessions(userId)]
  /\ hpc' = IF hpc = "ok" THEN "loaded" ELSE "reloaded"
  /\ task' = [t \in Tasks |-> "idle"]
  /\ pending' = {}
  /\ UNCHANGED << serverFrame, db, dbBefore, saves >>

\* the data changes are saved again (auto-save)
NextRequest ==
  /\ hpc \in {"loaded", "reloaded"}
  /\ hpc' = "idle"
  /\ UNCHANGED << serverFrame, data, db, dbBefore, task, pending, saves >>

NextServer ==
  \/ SaveAllStart
  \/ IngredientsDelete
  \/ IngredientsInsert
  \/ MeasurementsDelete
  \/ MeasurementsInsert
  \/ ConversionsInsert
  \/ Step1Done
  \/ RecipesDelete
  \/ SaveRecipe
  \/ RecipesDone
  \/ Step2Done
  \/ InventoryDelete
  \/ InventoryInsert
  \/ SessionsDelete
  \/ SessionsInsert
  \/ Step3Done
  \/ SaveAllCatch
  \/ LoadData
  \/ NextRequest

SpecServer == InitServer /\ [][NextServer]_vars

\* ------------------------------------------------------------------------
\* POST /data/:userId/initialize and initializeUserDefaults
\* ------------------------------------------------------------------------
\* the default catalog the client sends, cut down to one ingredient and two
\* measurements that convert into each other
DefaultIngredients == {FLOUR}

DefaultMeasurements ==
  {[id |-> MCUP, conversions |-> {MTBSP}], [id |-> MTBSP, conversions |-> {MCUP}]}

\* the rows of one copy of the default catalog of user uid
DefaultRows(uid) ==
  [EmptyDb EXCEPT
     !.ingredients = { [id |-> Prefixed(uid, i), user_id |-> uid] :
                         i \in DefaultIngredients },
     !.measurements = { [id |-> Prefixed(uid, m.id), user_id |-> uid] :
                          m \in DefaultMeasurements },
     !.measurement_conversions =
        UNION { { [from_measurement_id |-> Prefixed(uid, m.id),
                   to_measurement_id |-> Prefixed(uid, to)] :
                    to \in m.conversions } : m \in DefaultMeasurements }]

\* the user's rows before the first call: none; an ingredient of the user's
\* own and no measurement; a measurement and no ingredient; a copy of the
\* default catalog
UserRowsBefore ==
  { EmptyDb,
    [EmptyDb EXCEPT !.ingredients = {[id |-> << "u1", "99" >>, user_id |-> "u1"]}],
    [EmptyDb EXCEPT !.measurements = {[id |-> << "u1", "9" >>, user_id |-> "u1"]}],
    DefaultRows("u1") }

\* the rows of both records, table by table
Merge(a, b) == [t \in DOMAIN a |-> a[t] \cup b[t]]

MaxCalls == 3

InitInitialize ==
  /\ EngineIdle
  /\ ConvIdle
  /\ ClientsIdle
  /\ pc = "initialize"
  /\ measurements = << >>
  /\ data = EmptyData
  /\ \E own \in UserRowsBefore, others \in {EmptyDb, OtherUsersRows} :
       db = Merge(own, others)
  /\ dbBefore = db
  /\ task = [t \in Tasks |-> "idle"]
  /\ hpc = "idle"
  /\ pending = {}
  /\ saves = 0
  /\ InitializeIdle
  /\ AppIdle

initFrame == << inputs, loopState, results, pc, convVars, clientVars,
                data, dbBefore, task, hpc, pending, saves,
               appVars >>

\* lines 358-364: a request arrives and initializeUserDefaults is called
InitializeCall(c) ==
  /\ ipc[c] = "idle"
  /\ calls < MaxCalls
  /\ calls' = calls + 1
  /\ ipc' = [ipc EXCEPT ![c] = "getIngredients"]
  /\ existing' = [existing EXCEPT ![c] = [ingredients |-> {}, measurements |-> {}]]
  /\ ires' = [ires EXCEPT ![c] = "none"]
  /\ UNCHANGED << initFrame, db, initFailed >>

\* line 1137: const existingIngredients = await getIngredients(userId)
InitializeGetIngredients(c) ==
  /\ ipc[c] = "getIngredients"
  /\ existing' = [existing EXCEPT ![c].ingredients = getIngredients(userId)]
  /\ ipc' = [ipc EXCEPT ![c] = "getMeasurements"]
  /\ UNCHANGED << initFrame, db, ires, initFailed, calls >>

\* the test as existingIngredients.length > 0 && existingMeasurements.length > 0
HasData_Both(existingIngredients, existingMeasurements) ==
  existingIngredients # {} /\ existingMeasurements # {}

\* line 1140: existingIngredients.length > 0 || existingMeasurements.length > 0
HasData(existingIngredients, existingMeasurements) ==
  existingIngredients # {} \/ existingMeasurements # {}

\* lines 1138-1143: const existingMeasurements = await getMeasurements(userId)
\* and the test: return { alreadyInitialized: true } or go on
InitializeGetMeasurements(c) ==
  /\ ipc[c] = "getMeasurements"
  /\ existing' = [existing EXCEPT ![c].measurements = getMeasurements(userId)]
  /\ IF HasData(existing[c].ingredients, getMeasurements(userId))
       THEN /\ ires' = [ires EXCEPT ![c] = "alreadyInitialized"]
            /\ ipc' = [ipc EXCEPT ![c] = "idle"]
       ELSE /\ ipc' = [ipc EXCEPT ![c] = "measurementsDelete"]
            /\ UNCHANGED ires
  /\ UNCHANGED << initFrame, db, initFailed, calls >>

\* saveAllMeasurements(defaultMeasurements, userId), lines 729-752
InitializeMeasurementsDelete(c) ==
  /\ ipc[c] = "measurementsDelete"
  /\ LET existingIds == { r.id : r \in Of(db.measurements, userId) }
     IN db' = [db EXCEPT
                 !.measurement_conversions =
                    { x \in @ : x.from_measurement_id \notin existingIds },
                 !.measurements = NotOf(@, userId)]
  /\ ipc' = [ipc EXCEPT ![c] = "measurementsInsert"]
  /\ UNCHANGED << initFrame, existing, ires, initFailed, calls >>

\* the call throws and the handler answers 500 (lines 365-368)
InitializeThrow(c) ==
  /\ ipc' = [ipc EXCEPT ![c] = "idle"]
  /\ ires' = [ires EXCEPT ![c] = "error"]
  /\ initFailed' = TRUE
  /\ UNCHANGED << db, existing, calls >>

\* saveAllMeasurements, lines 755-769
InitializeMeasurementsInsert(c) ==
  /\ ipc[c] = "measurementsInsert"
  /\ \/ /\ db' = [db EXCEPT !.measurements = @ \cup DefaultRows(userId).measurements]
        /\ ipc' = [ipc EXCEPT ![c] = "conversionsInsert"]
        /\ UNCHANGED << existing, ires, initFailed, calls >>
     \/ InitializeThrow(c)
  /\ UNCHANGED initFrame

\* saveAllMeasurements, lines 772-797
InitializeConversionsInsert(c) ==
  /\ ipc[c] = "conversionsInsert"
  /\ \/ /\ db' = [db EXCEPT !.measurement_conversions =
                               @ \cup DefaultRows(userId).measurement_conversions]
        /\ ipc' = [ipc EXCEPT ![c] = "ingredientsDelete"]
        /\ UNCHANGED << existing, ires, initFailed, calls >>
     \/ InitializeThrow(c)
  /\ UNCHANGED initFrame

\* saveAllIngredients(defaultIngredients, userId), lines 574-577
InitializeIngredientsDelete(c) ==
  /\ ipc[c] = "ingredientsDelete"
  /\ db' = [db EXCEPT !.ingredients = NotOf(@, userId)]
  /\ ipc' = [ipc EXCEPT ![c] = "ingredientsInsert"]
  /\ UNCHANGED << initFrame, existing, ires, initFailed, calls >>

\* saveAllIngredients, lines 582-604, and the result of lines 1153-1157
InitializeIngredientsInsert(c) ==
  /\ ipc[c] = "ingredientsInsert"
  /\ \/ /\ db' = [db EXCEPT !.ingredients = @ \cup DefaultRows(userId).ingredients]
        /\ ipc' = [ipc EXCEPT ![c] = "idle"]
        /\ ires' = [ires EXCEPT ![c] = "initialized"]
        /\ UNCHANGED << existing, initFailed, calls >>
     \/ InitializeThrow(c)
  /\ UNCHANGED initFrame

NextInitialize ==
  \/ \E c \in InitCallers : InitializeCall(c)
  \/ \E c \in InitCallers : InitializeGetIngredients(c)
  \/ \E c \in InitCallers : InitializeGetMeasurements(c)
  \/ \E c \in InitCallers : InitializeMeasurementsDelete(c)
  \/ \E c \in InitCallers : InitializeMeasurementsInsert(c)
  \/ \E c \in InitCallers : InitializeConversionsInsert(c)
  \/ \E c \in InitCallers : InitializeIngredientsDelete(c)
  \/ \E c \in InitCallers : InitializeIngredientsInsert(c)

SpecInitialize == InitInitialize /\ [][NextInitialize]_vars

\* ------------------------------------------------------------------------
\* convertMeasurement on its own
\* ------------------------------------------------------------------------
\* a unit id that no measurement array holds
UNKNOWN == "4"

UnitIds == {CUP, TBSP, TSP, UNKNOWN}

\* the measurement arrays, and one whose only conversion leads to a unit
\* the array does not hold
ConvCatalogs ==
  Catalogs \cup { << Meas(CUP, << Conv(UNKNOWN, Num(2, 1)) >>) >> }

ConvQuantities == RequiredQuantities \cup { Num(3, 4), Num(8, 1) }

InitConvert ==
  /\ EngineIdle
  /\ measurements \in ConvCatalogs
  /\ pc = "convert"
  /\ convFrom \in UnitIds
  /\ convTo \in UnitIds
  /\ convQuantity \in ConvQuantities
  /\ convResult = NULL
  /\ ClientsIdle
  /\ ServerIdle
  /\ InitializeIdle
  /\ AppIdle

\* a call of convertMeasurement
ConvertCall ==
  /\ pc = "convert"
  /\ convResult' = convertMeasurement(convFrom, convTo, convQuantity, measurements)
  /\ pc' = "converted"
  /\ UNCHANGED << inputs, loopState, results, convFrom, convTo, convQuantity,
                  clientVars, serverVars, initVars, appVars >>

NextConvert == ConvertCall

SpecConvert == InitConvert /\ [][NextConvert]_vars

\* ------------------------------------------------------------------------
\* the App component (App.tsx): cooking sessions and the inventory handlers
\* ------------------------------------------------------------------------
Line(i, m, q) == [ingredientId |-> i, measurementId |-> m, quantity |-> q]

RecipeOf(id, servings, lines) ==
  [id |-> id, userId |-> "u1", servings |-> servings, cookCount |-> 0,
   ingredients |-> lines]

\* the user's recipes: one with two lines for the same ingredient in two
\* units, one with a single line
AppRecipes ==
  << RecipeOf("r1", Num(2, 1), << Line("flour", CUP, Num(1, 1)),
                                  Line("flour", TBSP, Num(16, 1)) >>),
     RecipeOf("r2", Num(1, 1), << Line("flour", TBSP, Num(8, 1)) >>) >>

AppMeasurements ==
  << Meas(CUP, << Conv(TBSP, Num(16, 1)) >>),
     Meas(TBSP, << Conv(CUP, Num(1, 16)) >>) >>

\* at most one record for a user, an ingredient and a unit
UniqueKeys(inv) ==
  \A i, j \in 1..Len(inv) :
    (/\ inv[i].userId = inv[j].userId
     /\ inv[i].ingredientId = inv[j].ingredientId
     /\ inv[i].measurementId = inv[j].measurementId) => i = j

\* the inventories the user starts with: none, one that holds another
\* user's record between the user's own, and one with the units the other
\* way round
AppInventories ==
  { << >>,
    << Item("u1", "flour", CUP, Num(2, 1)), Item("u2", "flour", CUP, Num(1, 1)),
       Item("u1", "flour", TBSP, Num(8, 1)) >>,
    << Item("u1", "flour", TBSP, Num(8, 1)), Item("u1", "flour", CUP, Num(1, 1)) >> }

\* the serving sizes the input of CookMode is set to
ServingSizes == { Num(1, 1), Num(2, 1) }

\* what the forms of the inventory view submit: a unit and a quantity
FormUnits == {CUP, TBSP}

FormEntries == { Line("flour", CUP, Num(1, 2)), Line("flour", TBSP, Num(8, 1)) }

\* a session is created only while generateId has handed out fewer ids
MaxSessions == 2

\* a record is added to only while it holds no more than this many cups
MaxQuantity == 2

InitApp ==
  /\ EngineIdle
  /\ ConvIdle
  /\ ClientsIdle
  /\ ServerIdle
  /\ InitializeIdle
  /\ pc = "app"
  /\ measurements = << >>
  /\ \E inv \in AppInventories :
       appData = [recipes |-> AppRecipes, measurements |-> AppMeasurements,
                  inventory |-> inv, cookingSessions |-> << >>,
                  currentUserId |-> "u1"]
  /\ selectedRecipeId = "null"
  /\ currentView = "dashboard"
  /\ nextId = 1
  /\ deductions = << >>
  /\ remote = EmptyAppData
  /\ lpc = [c \in InitCallers |-> "idle"]
  /\ loaded = [c \in InitCallers |-> EmptyAppData]
  /\ timer = FALSE
  /\ added = {}

appFrame == << inputs, loopState, results, pc, convVars, clientVars, serverVars,
               initVars, loginVars >>

\* data.recipes.find((r) => r.id === recipeId): its index, 0 if none
FindRecipe(d, recipeId) ==
  FirstIndex({ i \in 1..Len(d.recipes) : d.recipes[i].id = recipeId })

\* the index of the active session of the recipe and the current user, 0 if none
FindActiveSession(d, recipeId) ==
  FirstIndex({ i \in 1..Len(d.cookingSessions) :
                 /\ d.cookingSessions[i].recipeId = recipeId
                 /\ d.cookingSessions[i].userId = d.currentUserId
                 /\ d.cookingSessions[i].status = "active" })

\* userRecipes
UserRecipeIds(d) ==
  { d.recipes[i].id : i \in { j \in 1..Len(d.recipes) :
                                d.recipes[j].userId = d.currentUserId } }

\* a handler that starts a session whether or not one is active
handleStartCooking_Always(d, recipeId, id) ==
  IF FindRecipe(d, recipeId) = 0 THEN d
  ELSE [d EXCEPT !.cookingSessions =
          Append(@, [id |-> id, recipeId |-> recipeId, userId |-> d.currentUserId,
                     servingSize |-> d.recipes[FindRecipe(d, recipeId)].servings,
                     status |-> "active"])]

\* handleStartCooking: the data it sets; id is what generateId returns
handleStartCooking(d, recipeId, id) ==
  LET r == FindRecipe(d, recipeId) IN
  IF r = 0 THEN d
  ELSE IF FindActiveSession(d, recipeId) = 0
    THEN [d EXCEPT !.cookingSessions =
            Append(@, [id |-> id, recipeId |-> recipeId, userId |-> d.currentUserId,
                       servingSize |-> d.recipes[r].servings,
                       status |-> "active"])]
    ELSE d

\* setCurrentView of the sidebar buttons and of the back button of cook mode
Navigate ==
  /\ pc = "app"
  /\ \E view \in {"dashboard", "recipes", "inventory"} :
       /\ view # currentView
       /\ currentView' = view
  /\ UNCHANGED << appFrame, appData, selectedRecipeId, nextId >>
  /\ deductions' = << >>

StartCooking ==
  /\ pc = "app"
  /\ currentView \in {"dashboard", "recipes"}
  /\ \E recipeId \in UserRecipeIds(appData) :
       /\ FindActiveSession(appData, recipeId) # 0 \/ nextId <= MaxSessions
       /\ appData' = handleStartCooking(appData, recipeId, nextId)
       /\ nextId' = IF appData' = appData THEN nextId ELSE nextId + 1
       /\ selectedRecipeId' = recipeId
  /\ currentView' = "cook-mode"
  /\ UNCHANGED appFrame
  /\ deductions' = << >>

\* handleUpdateCookingSession
handleUpdateCookingSession(d, updated) ==
  [d EXCEPT !.cookingSessions =
     [i \in 1..Len(@) |-> IF @[i].id = updated.id THEN updated ELSE @[i]]]

\* the effect of CookMode (lines 244-255 of CookMode.tsx): the session it
\* was given with its serving size; the two lists of checked boxes are
\* not modelled
UpdateCookingSession ==
  /\ pc = "app"
  /\ currentView = "cook-mode"
  /\ FindRecipe(appData, selectedRecipeId) # 0
  /\ FindActiveSession(appData, selectedRecipeId) # 0
  /\ \E servingSize \in ServingSizes :
       appData' = handleUpdateCookingSession(appData,
                    [appData.cookingSessions[FindActiveSession(appData, selectedRecipeId)]
                       EXCEPT !.servingSize = servingSize])
  /\ UNCHANGED << appFrame, selectedRecipeId, currentView, nextId >>
  /\ deductions' = << >>

\* a factor that divides the wrong way round
scalingFactor_Inverse(servingSize, servings) == Div(servings, servingSize)

\* const scalingFactor = session.servingSize / recipe.servings
scalingFactor(servingSize, servings) == Div(servingSize, servings)

\* recipe.ingredients.forEach of handleCompleteCooking from line i on: the
\* calls of deductFromInventory it can make, each with its arguments, the
\* inventory it is given and the inventory it returns
RECURSIVE DeductLines(_, _, _, _, _)
DeductLines(lines, i, factor, inv, d) ==
  IF i > Len(lines) THEN { << >> }
  ELSE
    LET ing == lines[i]
        requiredAmount == Mul(ing.quantity, factor)
    IN UNION {
         { << [ingredientId |-> ing.ingredientId,
               measurementId |-> ing.measurementId,
               requiredQuantity |-> requiredAmount,
               userId |-> d.currentUserId,
               inventory |-> inv,
               updatedInventory |-> out] >> \o rest :
             rest \in DeductLines(lines, i + 1, factor, out, d) } :
         out \in deductFromInventory(ing.ingredientId, ing.measurementId,
                                     requiredAmount, inv, d.measurements,
                                     d.currentUserId) }

\* the inventory handleCompleteCooking sets after the calls
LastInventory(inv, made) ==
  IF made = << >> THEN inv ELSE made[Len(made)].updatedInventory

\* handleCompleteCooking
CompleteCooking ==
  /\ pc = "app"
  /\ currentView = "cook-mode"
  /\ FindRecipe(appData, selectedRecipeId) # 0
  /\ LET s == FindActiveSession(appData, selectedRecipeId)
         r == FindRecipe(appData, selectedRecipeId)
     IN IF s # 0 /\ r # 0 /\ appData.currentUserId # "null"
          THEN \E made \in DeductLines(appData.recipes[r].ingredients, 1,
                                       scalingFactor(appData.cookingSessions[s].servingSize,
                                                     appData.recipes[r].servings),
                                       appData.inventory, appData) :
                 /\ deductions' = made
                 /\ appData' =
                      [appData EXCEPT
                         !.cookingSessions =
                            [i \in 1..Len(@) |->
                               IF @[i].id = appData.cookingSessions[s].id
                                 THEN [@[i] EXCEPT !.status = "completed"] ELSE @[i]],
                         !.recipes =
                            [i \in 1..Len(@) |->
                               IF @[i].id = selectedRecipeId
                                 THEN [@[i] EXCEPT !.cookCount = @ + 1] ELSE @[i]],
                         !.inventory = LastInventory(appData.inventory, made)]
          ELSE /\ deductions' = << >>
               /\ UNCHANGED appData
  /\ currentView' = "recipes"
  /\ UNCHANGED << appFrame, selectedRecipeId, nextId >>

\* handleCancelCooking
CancelCooking ==
  /\ pc = "app"
  /\ currentView = "cook-mode"
  /\ FindRecipe(appData, selectedRecipeId) # 0
  /\ LET s == FindActiveSession(appData, selectedRecipeId)
     IN IF s # 0
          THEN appData' =
                 [appData EXCEPT
                    !.cookingSessions =
                       [i \in 1..Len(@) |->
                          IF @[i].id = appData.cookingSessions[s].id
                            THEN [@[i] EXCEPT !.status = "cancelled"] ELSE @[i]]]
          ELSE UNCHANGED appData
  /\ currentView' = "recipes"
  /\ UNCHANGED << appFrame, selectedRecipeId, nextId >>
  /\ deductions' = << >>

\* handleDeleteRecipe
DeleteRecipe ==
  /\ pc = "app"
  /\ currentView = "recipes"
  /\ \E recipeId \in UserRecipeIds(appData) :
       appData' = [appData EXCEPT
                     !.recipes = SelectSeq(@, LAMBDA r : r.id # recipeId),
                     !.cookingSessions = SelectSeq(@, LAMBDA s : s.recipeId # recipeId)]
  /\ UNCHANGED << appFrame, selectedRecipeId, currentView, nextId >>
  /\ deductions' = << >>

\* the index of the current user's record of the ingredient in the unit, 0 if none
FindItem(inv, uid, ing, m) ==
  FirstIndex({ i \in 1..Len(inv) : /\ inv[i].userId = uid
                                    /\ inv[i].ingredientId = ing
                                    /\ inv[i].measurementId = m })

\* a handler that appends whether or not the record exists
handleAddInventoryItem_Append(d, item) ==
  [d EXCEPT !.inventory =
     Append(@, Item(d.currentUserId, item.ingredientId, item.measurementId,
                    item.quantity))]

\* handleAddInventoryItem
handleAddInventoryItem(d, item) ==
  LET existingIndex == FindItem(d.inventory, d.currentUserId,
                                item.ingredientId, item.measurementId)
  IN IF existingIndex > 0
       THEN [d EXCEPT !.inventory[existingIndex].quantity = Add(@, item.quantity)]
       ELSE [d EXCEPT !.inventory =
               Append(@, Item(d.currentUserId, item.ingredientId,
                              item.measurementId, item.quantity))]

\* handleEditInventoryItem
handleEditInventoryItem(d, ing, oldMeasurementId, newMeasurementId, quantity) ==
  IF oldMeasurementId # newMeasurementId
    THEN
      LET withoutOld ==
            SelectSeq(d.inventory,
                      LAMBDA i : ~(/\ i.userId = d.currentUserId
                                   /\ i.ingredientId = ing
                                   /\ i.measurementId = oldMeasurementId))
          existingIndex == FindItem(withoutOld, d.currentUserId, ing, newMeasurementId)
      IN IF existingIndex > 0
           THEN [d EXCEPT !.inventory =
                   [withoutOld EXCEPT ![existingIndex].quantity = Add(@, quantity)]]
           ELSE [d EXCEPT !.inventory =
                   Append(withoutOld,
                          Item(d.currentUserId, ing, newMeasurementId, quantity))]
    ELSE [d EXCEPT !.inventory =
            [i \in 1..Len(@) |->
               IF /\ @[i].userId = d.currentUserId
                  /\ @[i].ingredientId = ing
                  /\ @[i].measurementId = oldMeasurementId
                 THEN [@[i] EXCEPT !.quantity = quantity] ELSE @[i]]]

\* handleDeleteInventoryItem
handleDeleteInventoryItem(d, ing, measurementId) ==
  [d EXCEPT !.inventory =
     SelectSeq(@, LAMBDA i : ~(/\ i.userId = d.currentUserId
                               /\ i.ingredientId = ing
                               /\ i.measurementId = measurementId))]

\* no record holds more than MaxQuantity cups
WithinQuantity(d) ==
  \A i \in 1..Len(d.inventory) :
    Le(convertMeasurement(d.inventory[i].measurementId, CUP, d.inventory[i].quantity,
                          AppMeasurements),
       Num(MaxQuantity, 1))

AddInventoryItem ==
  /\ pc = "app"
  /\ currentView = "inventory"
  /\ \E item \in FormEntries :
       appData' = handleAddInventoryItem(appData, item)
  /\ WithinQuantity(appData')
  /\ UNCHANGED << appFrame, selectedRecipeId, currentView, nextId >>
  /\ deductions' = << >>

EditInventoryItem ==
  /\ pc = "app"
  /\ currentView = "inventory"
  /\ \E oldMeasurementId \in FormUnits, entry \in FormEntries :
       appData' = handleEditInventoryItem(appData, entry.ingredientId, oldMeasurementId,
                                          entry.measurementId, entry.quantity)
  /\ WithinQuantity(appData')
  /\ UNCHANGED << appFrame, selectedRecipeId, currentView, nextId >>
  /\ deductions' = << >>

DeleteInventoryItem ==
  /\ pc = "app"
  /\ currentView = "inventory"
  /\ \E m \in FormUnits :
       appData' = handleDeleteInventoryItem(appData, "flour", m)
  /\ UNCHANGED << appFrame, selectedRecipeId, currentView, nextId >>
  /\ deductions' = << >>

NextApp ==
  \/ Navigate
  \/ StartCooking
  \/ UpdateCookingSession
  \/ CompleteCooking
  \/ CancelCooking
  \/ DeleteRecipe
  \/ AddInventoryItem
  \/ EditInventoryItem
  \/ DeleteInventoryItem

SpecApp == InitApp /\ [][NextApp]_vars

\* ------------------------------------------------------------------------
\* the login (App.tsx): handleLogin, the effect that loads the user's data
\* and the effect that saves them
\* ------------------------------------------------------------------------
\* what the server holds for the user when the login starts
RemoteData ==
  { [recipes |-> AppRecipes, measurements |-> AppMeasurements, inventory |-> inv,
     cookingSessions |-> << >>, currentUserId |-> "u1"] : inv \in AppInventories }

\* what loadDataFromSupabase returns when the request fails (lines 911-925)
LoadFailed(uid) == [EmptyAppData EXCEPT !.currentUserId = uid]

InitLogin ==
  /\ EngineIdle
  /\ ConvIdle
  /\ ClientsIdle
  /\ ServerIdle
  /\ InitializeIdle
  /\ pc = "login"
  /\ measurements = << >>
  /\ appData = EmptyAppData
  /\ selectedRecipeId = "null"
  /\ currentView = "dashboard"
  /\ nextId = 1
  /\ deductions = << >>
  /\ remote \in RemoteData
  /\ lpc = [c \in InitCallers |-> "idle"]
  /\ loaded = [c \in InitCallers |-> EmptyAppData]
  /\ timer = FALSE
  /\ added = {}

loginFrame == << inputs, loopState, results, pc, convVars, clientVars, serverVars,
                 initVars, selectedRecipeId, currentView, nextId, deductions >>

\* if (!data.currentUserId || data.currentUserId === 'demo') return, of both effects
LoggedIn(d) == d.currentUserId \notin {"null", "demo"}

\* handleLogin up to its await of loadDataFromSupabase(user.id); api.login
\* has returned the user u1
LoginRequest ==
  /\ pc = "login"
  /\ lpc["login"] = "idle"
  /\ lpc' = [lpc EXCEPT !["login"] = "requested"]
  /\ UNCHANGED << loginFrame, appData, remote, loaded, timer, added >>

\* loadDataFromSupabase: api.getUserData returns what the server holds at
\* this moment, or fails and the empty data are returned
LoadRespond(c) ==
  /\ pc = "login"
  /\ lpc[c] = "requested"
  /\ \/ loaded' = [loaded EXCEPT ![c] = [remote EXCEPT !.currentUserId = "u1"]]
     \/ loaded' = [loaded EXCEPT ![c] = LoadFailed("u1")]
  /\ lpc' = [lpc EXCEPT ![c] = "responded"]
  /\ UNCHANGED << loginFrame, appData, remote, timer, added >>

\* setData(userData) of handleLogin (line 119) and of the effect (line 65)
SetLoaded(current, userData) == userData

\* the await returns and the data are set.  The render that follows runs
\* the effects: the one of lines 58-75 starts a load when currentUserId has
\* changed, the one of lines 77-92 clears its timeout and sets a new one
LoadResolve(c) ==
  /\ pc = "login"
  /\ lpc[c] = "responded"
  /\ appData' = SetLoaded(appData, loaded[c])
  /\ lpc' = [d \in InitCallers |->
              IF d = c THEN "done"
              ELSE IF /\ d = "effect"
                      /\ appData'.currentUserId # appData.currentUserId
                      /\ LoggedIn(appData')
                     THEN "requested"
                     ELSE lpc[d]]
  /\ timer' = LoggedIn(appData')
  /\ UNCHANGED << loginFrame, remote, loaded, added >>

\* the user adds an inventory record; the render that follows sets the
\* timeout of the auto-save
Edit ==
  /\ pc = "login"
  /\ LoggedIn(appData)
  /\ \E item \in FormEntries :
       /\ appData' = handleAddInventoryItem(appData, item)
       /\ added' = added \cup
            { appData'.inventory[FindItem(appData'.inventory, appData.currentUserId,
                                          item.ingredientId, item.measurementId)] }
  /\ WithinQuantity(appData')
  /\ timer' = TRUE
  /\ UNCHANGED << loginFrame, remote, lpc, loaded >>

\* the timeout fires: saveDataToSupabase(data)
AutoSave ==
  /\ pc = "login"
  /\ timer
  /\ remote' = appData
  /\ timer' = FALSE
  /\ UNCHANGED << loginFrame, appData, lpc, loaded, added >>

NextLogin ==
  \/ LoginRequest
  \/ \E c \in InitCallers : LoadRespond(c)
  \/ \E c \in InitCallers : LoadResolve(c)
  \/ Edit
  \/ AutoSave

SpecLogin == InitLogin /\ [][NextLogin]_vars

\* ------------------------------------------------------------------------
\* Properties
\* ------------------------------------------------------------------------
Positive(q) == Lt(Zero, q)

IsCandidate(item) == item.userId = userId /\ item.ingredientId = ingredientId

IsExact(item) == IsCandidate(item) /\ item.measurementId = requiredMeasurementId

IsOther(item) == IsCandidate(item) /\ item.measurementId # requiredMeasurementId

\* the measurement array holds a direct conversion from unit a to unit b
HasEdge(a, b) ==
  \E i \in 1..Len(measurements) :
    /\ measurements[i].id = a
    /\ \E j \in 1..Len(measurements[i].conversions) :
         measurements[i].conversions[j].toMeasurementId = b

\* its factor (the arrays drawn hold at most one conversion per pair)
EdgeFactor(a, b) ==
  LET i == CHOOSE x \in 1..Len(measurements) :
             /\ measurements[x].id = a
             /\ \E j \in 1..Len(measurements[x].conversions) :
                  measurements[x].conversions[j].toMeasurementId = b
      j == CHOOSE y \in 1..Len(measurements[i].conversions) :
             measurements[i].conversions[y].toMeasurementId = b
  IN measurements[i].conversions[j].factor

\* a quantity q of unit u, expressed in the required unit: by the conversion
\* u -> required when there is one, else by the conversion required -> u
InRequired(u, q) ==
  IF u = requiredMeasurementId THEN q
  ELSE IF HasEdge(u, requiredMeasurementId)
    THEN Mul(q, EdgeFactor(u, requiredMeasurementId))
  ELSE IF HasEdge(requiredMeasurementId, u)
    THEN Div(q, EdgeFactor(requiredMeasurementId, u))
  ELSE Zero

RECURSIVE SumNums(_)
SumNums(nums) ==
  IF nums = << >> THEN Zero ELSE Add(Head(nums), SumNums(Tail(nums)))

SumSeq(seq, f(_)) == SumNums([i \in 1..Len(seq) |-> f(seq[i])])

\* the deducted lines, summed in the required unit
DeductedInRequired ==
  SumSeq(deducted, LAMBDA line : InRequired(line.measurementId, line.quantity))

\* the user's stock of the ingredient that converts into the required unit
ConvertibleStock ==
  SumSeq(SelectSeq(inventory, LAMBDA item :
           IsCandidate(item) /\ (item.measurementId = requiredMeasurementId
                                 \/ HasEdge(item.measurementId, requiredMeasurementId))),
         LAMBDA item : InRequired(item.measurementId, item.quantity))

\* the items of the working array at the indices in S, in array order
AtIndices(seq, S) ==
  LET idx == SelectSeq([i \in 1..Len(seq) |-> i], LAMBDA i : i \in S)
  IN [p \in 1..Len(idx) |-> seq[idx[p]]]

\* while the loop runs, the indices whose entry differs from the input
Changed == { i \in 1..Len(inventory) : updatedInventory[i] # inventory[i] }

\* the indices the loop has been through
Visited == { sortedItems[p] : p \in 1..(k - 1) }

InLoop == pc \in {"loop", "filter"}

\* C1: for a required quantity > 0, the deducted lines, converted into the
\* required unit, never sum to more than the required quantity.
C1_NeverOverDeducts ==
  (pc = "done" /\ Positive(requiredQuantity))
    => Le(DeductedInRequired, requiredQuantity)

\* C2: the deducted lines, in the required unit, sum to the minimum of the
\* required quantity and the user's stock convertible to the required unit.
C2_MaximumSatisfiable ==
  (pc = "done" /\ Positive(requiredQuantity))
    => DeductedInRequired = Min(requiredQuantity, ConvertibleStock)

\* C3: every candidate in the required unit is processed before any candidate
\* in another unit: the loop reaches a record of another unit only after all
\* exact-unit candidates, it changes such a record only while remaining > 0,
\* and when the exact-unit stock covers the request the records in other
\* units come back untouched.
C3_ExactUnitFirst ==
  /\ [][(pc = "loop" /\ k' = k + 1 /\ IsOther(CurItem))
          => /\ \A i \in 1..Len(inventory) : IsExact(inventory[i]) => i \in Visited
             /\ (updatedInventory' # updatedInventory \/ deducted' # deducted)
                   => Positive(remainingToDeduct)]_vars
  /\ [](pc = "done"
          /\ Positive(requiredQuantity)
          /\ Le(requiredQuantity,
                SumSeq(SelectSeq(inventory, IsExact), LAMBDA item : item.quantity))
        => SelectSeq(updatedInventory, IsOther) = SelectSeq(inventory, IsOther))

\* C3 witness: a convertible record in another unit stands before the exact
\* record in the input, the exact record covers the request, only it is taken
C3_Witness ==
  /\ pc = "done"
  /\ Len(inventory) = 2
  /\ IsOther(inventory[1]) /\ HasEdge(requiredMeasurementId, inventory[1].measurementId)
  /\ IsExact(inventory[2]) /\ inventory[2].quantity = requiredQuantity
  /\ updatedInventory = << inventory[1] >>
  /\ deducted = << [measurementId |-> requiredMeasurementId, quantity |-> requiredQuantity] >>

\* C4: the records of other users and of other ingredients are never written
\* while the loop runs, and come back all present, unmodified and in their
\* input order.
C4_NonCandidatesUntouched ==
  /\ InLoop => \A i \in 1..Len(inventory) :
                 ~IsCandidate(inventory[i]) => updatedInventory[i] = inventory[i]
  /\ pc = "done" =>
       SelectSeq(updatedInventory, LAMBDA item : ~IsCandidate(item))
         = SelectSeq(inventory, LAMBDA item : ~IsCandidate(item))

\* C4 witness: a candidate between two different non-candidates is used up
C4_Witness ==
  /\ pc = "done"
  /\ Len(inventory) = 3
  /\ ~IsCandidate(inventory[1]) /\ IsCandidate(inventory[2]) /\ ~IsCandidate(inventory[3])
  /\ inventory[1] # inventory[3]
  /\ deducted # << >>
  /\ updatedInventory = << inventory[1], inventory[3] >>

\* C5: a record the loop has taken from is either kept with a quantity
\* strictly above 0.001 or marked, and the return drops exactly the marked
\* ones: no record taken from comes back with a quantity at or below 0.001.
C5_EpsilonCleanup ==
  /\ [](InLoop => \A i \in Changed :
          \/ updatedInventory[i].quantity = REMOVED
          \/ Lt(EPSILON, updatedInventory[i].quantity))
  /\ [][pc = "filter" =>
          updatedInventory' = AtIndices(updatedInventory,
            { i \in 1..Len(inventory) :
                i \notin Changed \/ Lt(EPSILON, updatedInventory[i].quantity) })]_vars

\* C5 witness: a record left with exactly 0.001 is gone from the result
C5_Witness ==
  /\ pc = "done"
  /\ Len(inventory) = 1
  /\ IsExact(inventory[1])
  /\ Sub(inventory[1].quantity, requiredQuantity) = EPSILON
  /\ deducted = << [measurementId |-> requiredMeasurementId, quantity |-> requiredQuantity] >>
  /\ updatedInventory = << >>

\* C6: for a required quantity <= 0 the call returns no deducted line and
\* the input inventory, same records in the same order.
C6_NoOpWhenNotPositive ==
  (pc = "done" /\ Le(requiredQuantity, Zero))
    => (deducted = << >> /\ updatedInventory = inventory)

\* C6 witness: a request of 0 against stock in the required unit
C6_Witness ==
  /\ pc = "done"
  /\ requiredQuantity = Zero
  /\ \E i \in 1..Len(inventory) : IsExact(inventory[i])
  /\ updatedInventory = inventory

\* C7: without a record of the user and ingredient the call returns no
\* deducted line and the input inventory, whatever the required quantity.
C7_NoCandidates ==
  (pc = "done" /\ \A i \in 1..Len(inventory) : ~IsCandidate(inventory[i]))
    => (deducted = << >> /\ updatedInventory = inventory)

\* C7 witness: a positive request against the ingredient of another user and
\* another ingredient of this user only
C7_Witness ==
  /\ pc = "done"
  /\ Positive(requiredQuantity)
  /\ \A i \in 1..Len(inventory) : ~IsCandidate(inventory[i])
  /\ \E i \in 1..Len(inventory) :
       inventory[i].ingredientId = ingredientId /\ inventory[i].userId # userId
  /\ \E i \in 1..Len(inventory) :
       inventory[i].ingredientId # ingredientId /\ inventory[i].userId = userId

\* no direct conversion leads from the required unit to unit u
Unreachable(u) == u # requiredMeasurementId /\ ~HasEdge(requiredMeasurementId, u)

\* C8: a candidate whose unit has no direct conversion from the required
\* unit is passed over: the step changes neither the working array, nor the
\* deducted lines, nor remaining, and goes on to the next candidate; the
\* record comes back unchanged and no deducted line names its unit.
C8_UnconvertibleSkipped ==
  /\ [][(pc = "loop" /\ k <= Len(sortedItems) /\ Positive(remainingToDeduct)
           /\ Unreachable(CurItem.measurementId))
          => /\ updatedInventory' = updatedInventory
             /\ deducted' = deducted
             /\ remainingToDeduct' = remainingToDeduct
             /\ k' = k + 1
             /\ pc' = "loop"]_vars
  /\ [](pc = "done" =>
          /\ SelectSeq(updatedInventory,
                       LAMBDA item : IsCandidate(item) /\ Unreachable(item.measurementId))
               = SelectSeq(inventory,
                       LAMBDA item : IsCandidate(item) /\ Unreachable(item.measurementId))
          /\ \A p \in 1..Len(deducted) : ~Unreachable(deducted[p].measurementId))

\* C8 witness: the first candidate is unreachable and stays, the second one,
\* in a reachable unit, is taken from
C8_Witness ==
  /\ pc = "done"
  /\ Len(inventory) = 2
  /\ IsCandidate(inventory[1]) /\ Unreachable(inventory[1].measurementId)
  /\ IsOther(inventory[2]) /\ ~Unreachable(inventory[2].measurementId)
  /\ Len(deducted) = 1 /\ deducted[1].measurementId = inventory[2].measurementId
  /\ Len(updatedInventory) >= 1 /\ updatedInventory[1] = inventory[1]

\* the unit u converts from the required unit but not back
OneWay(u) ==
  /\ u # requiredMeasurementId
  /\ HasEdge(requiredMeasurementId, u)
  /\ ~HasEdge(u, requiredMeasurementId)

\* C9: when required -> unit exists and unit -> required does not, the step
\* takes min(quantity, remaining * factor) from the record and appends the
\* line, and leaves remaining as it was; with cup -> tbsp at 16 only, 8 tbsp
\* in stock and 0.5 cup required, the record is removed, the deducted lines
\* are [(tbsp, 8)] and remaining stays 0.5.
C9_NoBackConversion ==
  /\ [][(pc = "loop" /\ k <= Len(sortedItems) /\ Positive(remainingToDeduct)
           /\ OneWay(CurItem.measurementId))
          => LET u == CurItem.measurementId
                 take == Min(CurItem.quantity,
                             Mul(remainingToDeduct, EdgeFactor(requiredMeasurementId, u)))
                 rest == Sub(CurItem.quantity, take)
             IN /\ deducted' = Append(deducted, [measurementId |-> u, quantity |-> take])
                /\ remainingToDeduct' = remainingToDeduct
                /\ updatedInventory'[sortedItems[k]].quantity
                     = IF Lt(EPSILON, rest) THEN rest ELSE REMOVED
                /\ k' = k + 1]_vars
  /\ [](( /\ pc = "done"
          /\ inventory = << Item("u1", "flour", TBSP, Num(8, 1)) >>
          /\ requiredMeasurementId = CUP
          /\ requiredQuantity = Num(1, 2)
          /\ OneWay(TBSP)
          /\ EdgeFactor(CUP, TBSP) = Num(16, 1))
        => /\ updatedInventory = << >>
           /\ deducted = << [measurementId |-> TBSP, quantity |-> Num(8, 1)] >>
           /\ remainingToDeduct = Num(1, 2))

\* C9 witness: after a one-way unit was taken from, the next candidate is
\* taken from with remaining still at the required quantity
C9_Witness ==
  /\ pc = "done"
  /\ Len(inventory) = 2
  /\ IsCandidate(inventory[1]) /\ OneWay(inventory[1].measurementId)
  /\ IsOther(inventory[2]) /\ HasEdge(inventory[2].measurementId, requiredMeasurementId)
  /\ Len(deducted) = 2
  /\ InRequired(deducted[2].measurementId, deducted[2].quantity) = requiredQuantity

\* a quantity q of unit u in the required unit, by identity or direct conversion
DirectInRequired(u, q) ==
  IF u = requiredMeasurementId THEN q
  ELSE Mul(q, EdgeFactor(u, requiredMeasurementId))

\* the records of the ingredient whose unit is the target or converts directly
Summable(item) ==
  /\ item.ingredientId = ingredientId
  /\ (item.measurementId = requiredMeasurementId
        \/ HasEdge(item.measurementId, requiredMeasurementId))

\* C10: getTotalInventoryInUnit is the sum of the converted quantities of
\* exactly the records of the ingredient whose unit is the target unit or
\* converts to it directly; the others add nothing, and the result is 0
\* when there is no such record.
C10_TotalOfConvertible ==
  pc = "summed" =>
    /\ total = SumSeq(SelectSeq(inventory, Summable),
                      LAMBDA item : DirectInRequired(item.measurementId, item.quantity))
    /\ (\A i \in 1..Len(inventory) : ~Summable(inventory[i])) => total = Zero

\* C10 witness: a total over a record in the target unit, a record that
\* converts and a record that does not
C10_Witness ==
  /\ pc = "summed"
  /\ Len(inventory) = 3
  /\ \E i, j, l \in 1..3 :
       /\ inventory[i].ingredientId = ingredientId
       /\ inventory[i].measurementId = requiredMeasurementId
       /\ inventory[j].ingredientId = ingredientId
       /\ inventory[j].measurementId # requiredMeasurementId
       /\ HasEdge(inventory[j].measurementId, requiredMeasurementId)
       /\ inventory[l].ingredientId = ingredientId
       /\ inventory[l].measurementId # requiredMeasurementId
       /\ ~HasEdge(inventory[l].measurementId, requiredMeasurementId)
       /\ total = Add(inventory[i].quantity,
                      Mul(inventory[j].quantity,
                          EdgeFactor(inventory[j].measurementId, requiredMeasurementId)))

\* the sum getTotalInventoryInUnit is to return: over the records of the
\* ingredient that are in the target unit or convert to it directly
DirectTotal ==
  SumSeq(SelectSeq(inventory, Summable),
         LAMBDA item : DirectInRequired(item.measurementId, item.quantity))

\* C11: hasEnoughInventory returns as available the total of the records
\* that convert to the required unit, and hasEnough exactly when available
\* >= requiredQuantity: true at equality, false below, never an error.
C11_EnoughIffAvailable ==
  pc = "checked" =>
    /\ enough.available = DirectTotal
    /\ enough.hasEnough = Le(requiredQuantity, enough.available)
    /\ enough.available = requiredQuantity => enough.hasEnough
    /\ Lt(enough.available, requiredQuantity) => ~enough.hasEnough

\* C11 witness: the available amount is exactly the positive required one
C11_Witness ==
  /\ pc = "checked"
  /\ Positive(requiredQuantity)
  /\ enough.available = requiredQuantity
  /\ enough.hasEnough

\* C12: convertMeasurement(u, u, q) is q, also for a unit without
\* conversions and for a unit the measurement array does not hold.
C12_SameUnitIdentity ==
  (pc = "converted" /\ convFrom = convTo) => convResult = convQuantity

\* C12 witness: the identity on a unit that is not in the array
C12_Witness ==
  /\ pc = "converted"
  /\ convFrom = convTo
  /\ \A i \in 1..Len(measurements) : measurements[i].id # convFrom
  /\ convQuantity # Zero
  /\ convResult = convQuantity

\* C13: for distinct units with a conversion from -> to at factor f the
\* result is q * f, whether or not the array holds the target unit or a
\* conversion back.
C13_DirectFactor ==
  (pc = "converted" /\ convFrom # convTo /\ HasEdge(convFrom, convTo))
    => convResult = Mul(convQuantity, EdgeFactor(convFrom, convTo))

\* C13 witness: a conversion to a unit that the array does not hold, and so
\* without a conversion back
C13_Witness ==
  /\ pc = "converted"
  /\ convFrom # convTo
  /\ HasEdge(convFrom, convTo)
  /\ \A i \in 1..Len(measurements) : measurements[i].id # convTo
  /\ convQuantity = Num(3, 4)
  /\ convResult = Num(3, 2)

\* C14: for distinct units the result is null exactly when the array does
\* not hold the source unit or the source unit has no conversion to the
\* target; in particular with A -> B and B -> C but no A -> C the
\* conversion A -> C is null.
C14_NullIffNoDirect ==
  (pc = "converted" /\ convFrom # convTo)
    => (convResult = NULL <=> ~HasEdge(convFrom, convTo))

\* C14 witness: cup -> tbsp and tbsp -> tsp exist, cup -> tsp does not
C14_Witness ==
  /\ pc = "converted"
  /\ convFrom = CUP /\ convTo = TSP
  /\ HasEdge(CUP, TBSP) /\ HasEdge(TBSP, TSP) /\ ~HasEdge(CUP, TSP)
  /\ convResult = NULL

DeductAgrees ==
  pc = "done" =>
    updatedInventory \in deductFromInventory(ingredientId, requiredMeasurementId,
                                             requiredQuantity, inventory,
                                             measurements, userId)

\* the inventories that the deduction of caller c and then that of caller d
\* produce from inv
SerialResults(inv, c, d) ==
  UNION { deductFromInventory(ingredientId, request[d].measurementId,
                              request[d].quantity, r, measurements, userId) :
            r \in deductFromInventory(ingredientId, request[c].measurementId,
                                      request[c].quantity, inv, measurements, userId) }

BothWritten == \A c \in Callers : cpc[c] = "written"

\* C16: when two callers deduct from the same inventory, the stored
\* inventory is a result of the two deductions one after the other, in the
\* order of the writes, only if neither caller read while the other held a
\* snapshot it had not written back; when they did so, both worked on the
\* same snapshot and the stored inventory is the later writer's result on
\* that snapshot alone, the earlier writer's deduction being overwritten.
C16_SerializedWritesOnly ==
  BothWritten =>
    /\ ~overlapped => stored \in SerialResults(stored0, writers[1], writers[2])
    /\ overlapped =>
         stored \in deductFromInventory(ingredientId, request[writers[2]].measurementId,
                                        request[writers[2]].quantity, stored0,
                                        measurements, userId)

\* C16 witness: a lost update; both callers deducted something from the
\* same snapshot and the stored inventory is what no order of the two
\* deductions gives
C16_Witness ==
  /\ BothWritten
  /\ overlapped
  /\ \A c \in Callers :
       stored0 \notin deductFromInventory(ingredientId, request[c].measurementId,
                                          request[c].quantity, stored0,
                                          measurements, userId)
  /\ stored \notin SerialResults(stored0, "c1", "c2")
  /\ stored \notin SerialResults(stored0, "c2", "c1")

NotStarted(ts) == \A t \in ts : task[t] = "idle"

\* C17: in a save-all request saveAllRecipes is started only when
\* saveAllIngredients and saveAllMeasurements have both completed,
\* saveAllInventory and saveAllCookingSessions only when saveAllRecipes has
\* completed too, and once a save function of a step has failed none of a
\* later step is started.
C17_SaveOrder ==
  /\ ~NotStarted({"recipes"}) => AllFulfilled({"ingredients", "measurements"})
  /\ ~NotStarted({"inventory"}) => AllFulfilled({"ingredients", "measurements", "recipes"})
  /\ ~NotStarted({"sessions"}) => AllFulfilled({"ingredients", "measurements", "recipes"})
  /\ AnyRejected({"ingredients", "measurements"})
       => NotStarted({"recipes", "inventory", "sessions"})
  /\ AnyRejected({"recipes"}) => NotStarted({"inventory", "sessions"})

\* C17 witness: step 3 is under way after a recipe with an ingredient has
\* been saved
C17_Witness ==
  /\ hpc = "step3"
  /\ task["inventory"] = "insert"
  /\ task["sessions"] = "delete"
  /\ db.recipe_ingredients # OtherUsersRows.recipe_ingredients

\* C18: a save-all request that fails leaves every stored collection as it
\* was when the request arrived.
C18_AtomicOnFailure == hpc = "error" => db = dbBefore

\* C19: the ingredient and measurement ids that the client loads after a
\* successful save-all request are the ids it saved.
C19_IdsRoundTrip ==
  [][(hpc = "ok" /\ hpc' = "loaded") =>
       /\ data'.ingredients = data.ingredients
       /\ { m.id : m \in data'.measurements } = { m.id : m \in data.measurements }]_vars

\* the stored ids of the user's ingredients and measurements
StoredIngredientIds(uid) == { r.id : r \in Of(db.ingredients, uid) }

StoredMeasurementIds(uid) == { r.id : r \in Of(db.measurements, uid) }

\* C20: after a successful save-all request every stored conversion of the
\* user's measurements, every ingredient row of the user's recipes and
\* every inventory row of the user refers to stored ingredients and
\* measurements of that user.
C20_ReferentialIntegrity ==
  hpc = "ok" =>
    /\ \A c \in db.measurement_conversions :
         (Head(c.from_measurement_id) = userId
            \/ c.from_measurement_id \in StoredMeasurementIds(userId)) =>
           /\ c.from_measurement_id \in StoredMeasurementIds(userId)
           /\ c.to_measurement_id \in StoredMeasurementIds(userId)
    /\ \A ri \in db.recipe_ingredients :
         ri.recipe_id \in { r.id : r \in Of(db.recipes, userId) } =>
           /\ ri.ingredient_id \in StoredIngredientIds(userId)
           /\ ri.measurement_id \in StoredMeasurementIds(userId)
    /\ \A item \in Of(db.inventory, userId) :
         /\ item.ingredient_id \in StoredIngredientIds(userId)
         /\ item.measurement_id \in StoredMeasurementIds(userId)

InitWritePhases ==
  {"measurementsDelete", "measurementsInsert", "conversionsInsert",
   "ingredientsDelete", "ingredientsInsert"}

\* the user's rows in the tables that initializeUserDefaults writes
CatalogOf(tables, uid) ==
  [ingredients |-> Of(tables.ingredients, uid),
   measurements |-> Of(tables.measurements, uid),
   measurement_conversions |->
     { x \in tables.measurement_conversions : Head(x.from_measurement_id) = uid }]

C22_NothingAfterExhausted ==
  /\ [][(pc = "loop" /\ k <= Len(sortedItems) /\ Le(remainingToDeduct, Zero))
          => /\ updatedInventory' = updatedInventory
             /\ deducted' = deducted
             /\ remainingToDeduct' = remainingToDeduct
             /\ pc' = "filter"]_vars
  /\ []((pc = "filter" /\ Le(remainingToDeduct, Zero))
          => \A p \in k..Len(sortedItems) :
               updatedInventory[sortedItems[p]] = inventory[sortedItems[p]])
  /\ []((pc = "done" /\ Le(remainingToDeduct, Zero))
          => \A p \in k..Len(sortedItems) :
               \E i \in 1..Len(updatedInventory) :
                 updatedInventory[i] = inventory[sortedItems[p]])

\* C22 witness: a positive request was met by the first candidates and a
\* later candidate with stock came back
C22_Witness ==
  /\ pc = "done"
  /\ Positive(requiredQuantity)
  /\ Le(remainingToDeduct, Zero)
  /\ deducted # << >>
  /\ k <= Len(sortedItems)
  /\ Positive(inventory[sortedItems[k]].quantity)
  /\ ~Unreachable(inventory[sortedItems[k]].measurementId)

\* the positions of the processing order that the loop has been through and
\* whose record it changed
TakenPositions ==
  SelectSeq([p \in 1..(k - 1) |-> p], LAMBDA p : sortedItems[p] \in Changed)

\* C23: the loop goes once through the candidates: the processing order
\* holds every candidate index exactly once, each iteration moves on to the
\* next position, a record the loop has been through is not changed again,
\* the deducted lines are those of the changed records in processing order,
\* one each, and the loop stops within as many iterations as there are
\* candidates.
C23_SinglePass ==
  /\ [](InLoop =>
          /\ Len(sortedItems) = Len(SelectSeq(inventory, IsCandidate))
          /\ \A p, q \in 1..Len(sortedItems) : p # q => sortedItems[p] # sortedItems[q]
          /\ \A p \in 1..Len(sortedItems) : IsCandidate(inventory[sortedItems[p]])
          /\ k - 1 <= Len(sortedItems)
          /\ Len(deducted) = Len(TakenPositions)
          /\ \A i \in 1..Len(deducted) :
               deducted[i].measurementId =
                 inventory[sortedItems[TakenPositions[i]]].measurementId)
  /\ [][pc = "loop" =>
          /\ sortedItems' = sortedItems
          /\ (k' = k + 1 /\ pc' = "loop") \/ (k' = k /\ pc' = "filter")
          /\ Len(deducted') <= Len(deducted) + 1
          /\ \A i \in Visited : updatedInventory'[i] = updatedInventory[i]]_vars

\* C23 witness: the loop has been through three candidates, it skipped the
\* first for want of a conversion and took from a later one
C23_Witness ==
  /\ pc = "filter"
  /\ Len(sortedItems) = 3
  /\ k = 4
  /\ sortedItems[1] \notin Changed
  /\ Unreachable(inventory[sortedItems[1]].measurementId)
  /\ sortedItems[2] \in Changed
  /\ Len(deducted) = 2

\* the amount q of the required unit in unit u, for a unit the required
\* unit is or converts to
RequiredInUnit(u, q) ==
  IF u = requiredMeasurementId THEN q
  ELSE Mul(q, EdgeFactor(requiredMeasurementId, u))

\* C24: a step that takes from a record takes the smaller of the record's
\* quantity and remaining in the record's unit, which is between 0 and the
\* record's quantity; the record is kept with its quantity less the amount
\* taken, or removed when that difference is at most 0.001; no quantity
\* grows and updatedInventory is never longer than the input.
C24_TakeBounds ==
  /\ [][(pc = "loop" /\ deducted' # deducted) =>
          LET item == inventory[sortedItems[k]]
              take == deducted'[Len(deducted')].quantity
              amount == RequiredInUnit(item.measurementId, remainingToDeduct)
              entry == updatedInventory'[sortedItems[k]]
          IN /\ Len(deducted') = Len(deducted) + 1
             /\ take = (IF Le(item.quantity, amount) THEN item.quantity ELSE amount)
             /\ Le(Zero, take)
             /\ Le(take, item.quantity)
             /\ entry.quantity # REMOVED => entry.quantity = Sub(item.quantity, take)
             /\ entry.quantity = REMOVED => Le(Sub(item.quantity, take), EPSILON)]_vars
  /\ [](InLoop =>
          /\ Len(updatedInventory) = Len(inventory)
          /\ \A i \in 1..Len(inventory) :
               Le(updatedInventory[i].quantity, inventory[i].quantity))
  /\ [](pc = "done" =>
          /\ Len(updatedInventory) <= Len(inventory)
          /\ \A i \in 1..Len(updatedInventory) :
               \E j \in 1..Len(inventory) :
                 /\ updatedInventory[i] = [inventory[j] EXCEPT !.quantity = updatedInventory[i].quantity]
                 /\ Le(updatedInventory[i].quantity, inventory[j].quantity))

\* C24 witness: a record in another unit than the required one was taken
\* from in part and is kept with the rest
C24_Witness ==
  /\ pc = "filter"
  /\ \E p \in 1..(k - 1) :
       LET i == sortedItems[p]
       IN /\ inventory[i].measurementId # requiredMeasurementId
          /\ Positive(updatedInventory[i].quantity)
          /\ Lt(updatedInventory[i].quantity, inventory[i].quantity)

\* the stock of the ingredient that owner u holds in the target unit or in
\* units that convert to it directly
OwnerTotal(u) ==
  SumSeq(SelectSeq(inventory, LAMBDA item : Summable(item) /\ item.userId = u),
         LAMBDA item : DirectInRequired(item.measurementId, item.quantity))

\* C25: the amount that getTotalInventoryInUnit and hasEnoughInventory
\* report is the stock of every owner together, while deductFromInventory
\* on the same inventory goes through and changes only the records of the
\* given user.
C25_TotalOfAllOwners ==
  /\ pc = "summed" => total = Add(OwnerTotal("u1"), OwnerTotal("u2"))
  /\ pc = "checked" =>
       /\ enough.available = Add(OwnerTotal("u1"), OwnerTotal("u2"))
       /\ enough.hasEnough = Le(requiredQuantity, Add(OwnerTotal("u1"), OwnerTotal("u2")))
  /\ InLoop =>
       /\ \A p \in 1..Len(sortedItems) : inventory[sortedItems[p]].userId = userId
       /\ \A i \in 1..Len(inventory) :
            inventory[i].userId # userId => updatedInventory[i] = inventory[i]
  /\ pc = "done" =>
       SelectSeq(updatedInventory, LAMBDA item : item.userId # userId)
         = SelectSeq(inventory, LAMBDA item : item.userId # userId)

\* C25 witness: the check reports enough although the user's own stock is
\* short of the request, the rest being another owner's
C25_Witness ==
  /\ pc = "checked"
  /\ enough.hasEnough
  /\ Positive(OwnerTotal(userId))
  /\ Lt(OwnerTotal(userId), requiredQuantity)
  /\ Positive(OwnerTotal("u2"))

\* every record of the inventory belongs to the given user
SingleOwner == \A i \in 1..Len(inventory) : inventory[i].userId = userId

\* C29: on an inventory of one owner, whenever hasEnoughInventory reports
\* enough for a required quantity > 0, deductFromInventory with the same
\* arguments ends with remaining <= 0.
C29_CheckImpliesDeduct ==
  (pc = "done" /\ Positive(requiredQuantity) /\ SingleOwner
     /\ hasEnoughInventory(ingredientId, requiredMeasurementId, requiredQuantity,
                           inventory, measurements).hasEnough)
    => Le(remainingToDeduct, Zero)
\* the sessions with a status other than active, by id
Finished(d) ==
  { d.cookingSessions[i].id :
      i \in { j \in 1..Len(d.cookingSessions) : d.cookingSessions[j].status # "active" } }

\* C26: a step of handleCompleteCooking with an active session of the
\* selected recipe and the current user calls deductFromInventory once for
\* every ingredient line of the recipe, in the order of the lines, with the
\* line's quantity times servingSize / servings, the first call on
\* data.inventory and every later call on the inventory the call before it
\* returned; the inventory set is what the last call returned, the session
\* is completed, the recipe's cookCount is one more, and no other session
\* or recipe changes.  Without such a session the step changes no data.
C26_CompleteDeductsEveryLine ==
  [][CompleteCooking =>
       LET s == FindActiveSession(appData, selectedRecipeId)
           r == FindRecipe(appData, selectedRecipeId)
       IN IF s = 0
            THEN appData' = appData /\ deductions' = << >>
            ELSE
              LET lines == appData.recipes[r].ingredients
                  cooked == appData.cookingSessions[s]
                  made == deductions'
              IN /\ Len(made) = Len(lines)
                 /\ \A i \in 1..Len(lines) :
                      /\ made[i].ingredientId = lines[i].ingredientId
                      /\ made[i].measurementId = lines[i].measurementId
                      /\ made[i].requiredQuantity =
                           Mul(lines[i].quantity,
                               Div(cooked.servingSize, appData.recipes[r].servings))
                      /\ made[i].userId = appData.currentUserId
                      /\ made[i].inventory =
                           IF i = 1 THEN appData.inventory
                                    ELSE made[i - 1].updatedInventory
                      /\ made[i].updatedInventory \in
                           deductFromInventory(made[i].ingredientId, made[i].measurementId,
                                               made[i].requiredQuantity, made[i].inventory,
                                               appData.measurements, made[i].userId)
                 /\ appData'.inventory =
                      IF lines = << >> THEN appData.inventory
                                       ELSE made[Len(made)].updatedInventory
                 /\ Len(appData'.cookingSessions) = Len(appData.cookingSessions)
                 /\ \A i \in 1..Len(appData.cookingSessions) :
                      appData'.cookingSessions[i] =
                        IF i = s THEN [cooked EXCEPT !.status = "completed"]
                                 ELSE appData.cookingSessions[i]
                 /\ Len(appData'.recipes) = Len(appData.recipes)
                 /\ \A i \in 1..Len(appData.recipes) :
                      appData'.recipes[i] =
                        IF i = r
                          THEN [appData.recipes[r] EXCEPT
                                  !.cookCount = appData.recipes[r].cookCount + 1]
                          ELSE appData.recipes[i]]_vars

\* a session of two servings' recipe cooked for one serving has been
\* completed: two calls were made, each took stock, the first for half the
\* line's quantity, the second from what the first left
C26_Witness ==
  /\ pc = "app"
  /\ Len(deductions) = 2
  /\ deductions[1].requiredQuantity = Num(1, 2)
  /\ deductions[1].updatedInventory # deductions[1].inventory
  /\ deductions[2].inventory = deductions[1].updatedInventory
  /\ deductions[2].updatedInventory # deductions[2].inventory
  /\ appData.inventory = deductions[2].updatedInventory
  /\ \E i \in 1..Len(appData.cookingSessions) :
       appData.cookingSessions[i].status = "completed"
  /\ appData.recipes[1].cookCount = 1

\* C27: there is never more than one active session of a recipe and a
\* user; a session that is completed or cancelled is not active after any
\* step; and starting to cook a recipe that has an active session leaves
\* the sessions as they are.
C27_OneActiveSession ==
  /\ [](\A i, j \in 1..Len(appData.cookingSessions) :
          (/\ appData.cookingSessions[i].status = "active"
           /\ appData.cookingSessions[j].status = "active"
           /\ appData.cookingSessions[i].recipeId = appData.cookingSessions[j].recipeId
           /\ appData.cookingSessions[i].userId = appData.cookingSessions[j].userId)
            => i = j)
  /\ [][/\ \A i \in 1..Len(appData'.cookingSessions) :
            appData'.cookingSessions[i].id \in Finished(appData)
              => appData'.cookingSessions[i].status # "active"
        /\ (StartCooking /\ FindActiveSession(appData, selectedRecipeId') # 0)
              => appData'.cookingSessions = appData.cookingSessions]_vars

\* cook mode is open on the second session of a recipe whose first session
\* was cancelled
C27_Witness ==
  /\ pc = "app"
  /\ currentView = "cook-mode"
  /\ Len(appData.cookingSessions) = 2
  /\ appData.cookingSessions[1].status = "cancelled"
  /\ appData.cookingSessions[2].status = "active"
  /\ appData.cookingSessions[1].recipeId = appData.cookingSessions[2].recipeId
  /\ appData.cookingSessions[2].recipeId = selectedRecipeId

\* what the records of the current user, the ingredient and the unit hold
\* together
QuantityOf(d, ing, m) ==
  SumNums(LET own == SelectSeq(d.inventory,
                               LAMBDA i : /\ i.userId = d.currentUserId
                                          /\ i.ingredientId = ing
                                          /\ i.measurementId = m)
          IN [i \in 1..Len(own) |-> own[i].quantity])

\* C28: the inventory never holds two records of one user, ingredient and
\* unit; and a step of the inventory view leaves in a key what it held,
\* nothing, the submitted quantity, or what it held plus the submitted
\* quantity.
C28_OneRecordPerKey ==
  /\ [](UniqueKeys(appData.inventory))
  /\ [][currentView = "inventory" =>
          \A m \in FormUnits :
            QuantityOf(appData', "flour", m) \in
              {QuantityOf(appData, "flour", m), Zero}
                \cup { e.quantity : e \in { f \in FormEntries : f.measurementId = m } }
                \cup { Add(QuantityOf(appData, "flour", m), e.quantity) :
                         e \in { f \in FormEntries : f.measurementId = m } }]_vars

\* after a completed session the inventory holds three records, one of
\* another user, and the user's tablespoons are what two submissions add up to
C28_Witness ==
  /\ pc = "app"
  /\ Len(appData.inventory) = 3
  /\ \E i \in 1..3 : appData.inventory[i] = Item("u1", "flour", TBSP, Num(16, 1))
  /\ \E i \in 1..3 : appData.inventory[i].userId = "u2"
  /\ \E i \in 1..Len(appData.cookingSessions) :
       appData.cookingSessions[i].status = "completed"

\* C30: once the load the currentUserId effect started has set its data,
\* every record the user has added since the login is in the inventory
\* with at least the quantity it had when it was added.
C30_EditsSurviveLoad ==
  (pc = "login" /\ lpc["effect"] = "done")
    => \A item \in added :
         Le(item.quantity, QuantityOf(appData, item.ingredientId, item.measurementId))

====
